---- MODULE Spec2Model ----
(***************************************************************************)
(* GemView: the browsing session of the widget (history, buffer, request   *)
(* workers and their channels) modelled from src/src/lib.rs,               *)
(* src/src/imp/history.rs and the request drivers under src/src/scheme.    *)
(*                                                                         *)
(* A uri is the record [scheme, path]: the text before the first ':' and   *)
(* the rest.  Strings that the code only stores and compares stay atoms.   *)
(***************************************************************************)
EXTENDS Integers, Sequences, FiniteSets, TLC

VARIABLES
    history,    \* imp::GemView.history: [uri, back, forward]
    buffer,     \* imp::GemView.buffer: [mime, content]
    view,       \* the active upload links of the rendered page
    alive,      \* the main thread has not panicked
    loads,      \* the loads whose worker or channel is alive, oldest first
    last,       \* the load that was finished most recently, if any
    nloads,     \* number of loads started so far
    napi,       \* number of append_history / set_uri calls made so far
    raw,        \* the bytes read from a server, or the status byte, to convert
    parsed      \* what the conversion made of raw, if it has run

vars == <<history, buffer, view, alive, loads, last, nloads, napi, raw, parsed>>

\* ---------------------------------------------------------------- bounds
\* number of load() / post_spartan() calls of one run
MaxLoads == 2
\* number of loads whose worker or channel is alive at the same time
MaxInFlight == 1
\* number of append_history() / set_uri() calls of the embedding application
MaxApi == 2
\* number of loads in flight at the same time in the runs with overlapping
\* navigations (SpecConcurrent)
MaxConcurrent == 2

\* ------------------------------------------------------------ data model
Uri(s, p) == [scheme |-> s, path |-> p]

AboutBlank == Uri("about", "blank")

\* Option<T>: <<>> is None, <<x>> is Some(x)
None == <<>>
Some(x) == <<x>>
IsSome(o) == Len(o) = 1

\* History::default
HistoryDefault == [uri |-> AboutBlank, back |-> <<>>, forward |-> <<>>]

\* Buffer::default (derive(Default)): empty mime, empty content
BufferDefault == [mime |-> "", content |-> ""]

\* ------------------------------------------------------ History (struct)
\* a faulty History::previous that forgets to push the old current uri onto
\* forward; C3 must not hold of it
HistoryPrevious_DropsCurrent(h) ==
    IF Len(h.back) > 0
    THEN LET prev == h.back[Len(h.back)]
         IN  [hist |-> [uri     |-> prev,
                        back    |-> SubSeq(h.back, 1, Len(h.back) - 1),
                        forward |-> h.forward],
              ret  |-> Some(prev)]
    ELSE [hist |-> h, ret |-> None]

\* History::previous: the history after the call and the returned Option
HistoryPrevious(h) ==
    IF Len(h.back) > 0
    THEN LET prev == h.back[Len(h.back)]
         IN  [hist |-> [uri     |-> prev,
                        back    |-> SubSeq(h.back, 1, Len(h.back) - 1),
                        forward |-> Append(h.forward, h.uri)],
              ret  |-> Some(prev)]
    ELSE [hist |-> h, ret |-> None]

\* a faulty History::next that does not push the old current uri onto back;
\* C4 must not hold of it
HistoryNext_KeepsBack(h) ==
    IF Len(h.forward) > 0
    THEN LET next == h.forward[Len(h.forward)]
         IN  [hist |-> [uri     |-> next,
                        back    |-> h.back,
                        forward |-> SubSeq(h.forward, 1, Len(h.forward) - 1)],
              ret  |-> Some(next)]
    ELSE [hist |-> h, ret |-> None]

\* History::next
HistoryNext(h) ==
    IF Len(h.forward) > 0
    THEN LET next == h.forward[Len(h.forward)]
         IN  [hist |-> [uri     |-> next,
                        back    |-> Append(h.back, h.uri),
                        forward |-> SubSeq(h.forward, 1, Len(h.forward) - 1)],
              ret  |-> Some(next)]
    ELSE [hist |-> h, ret |-> None]

\* a faulty History::append that keeps the forward stack; C1 must not hold
\* of it
HistoryAppend_KeepsForward(h, uri) ==
    [uri |-> uri, back |-> Append(h.back, h.uri), forward |-> h.forward]

\* History::append
HistoryAppend(h, uri) ==
    [uri |-> uri, back |-> Append(h.back, h.uri), forward |-> <<>>]

\* a faulty GemView::append_history without its guard; C2 must not hold of
\* it
AppendHistoryTo_Unguarded(h, uri) ==
    HistoryAppend(h, uri)

\* GemView::append_history
AppendHistoryTo(h, uri) ==
    IF h.uri # uri THEN HistoryAppend(h, uri) ELSE h

\* a faulty GemView::set_uri that also forgets the back stack; C5 must not
\* hold of it
SetUriOf_ClearsBack(h, uri) ==
    [h EXCEPT !.uri = uri, !.back = <<>>]

\* GemView::set_uri
SetUriOf(h, uri) == [h EXCEPT !.uri = uri]

\* ------------------------------------------------------------- url crate
\* schemes as they may be typed into an address; Url::parse lower-cases them
Lower(s) == IF s = "GEMINI" THEN "gemini" ELSE s

\* an address whose port does not parse: Url::parse fails with InvalidPort
BadPort == "//h:x/"

\* Url::parse followed, where the code does so, by Url::to_string:
\* [ok, url] or [ok, err]
UrlParse(addr) ==
    IF addr.scheme = "" THEN [ok |-> FALSE, err |-> <<"RelativeUrlWithoutBase">>]
    ELSE IF addr.path = BadPort THEN [ok |-> FALSE, err |-> <<"InvalidPort">>]
    ELSE [ok |-> TRUE, url |-> Uri(Lower(addr.scheme), addr.path)]

\* a url with no "//authority/" part cannot be joined to
CannotBeABase(u) == u.scheme \in {"about", "data"}

\* Url::join for a relative reference: the path is replaced
UrlJoin(base, rel) ==
    IF CannotBeABase(base)
    THEN [ok |-> FALSE, err |-> <<"RelativeUrlWithCannotBeABaseBase">>]
    ELSE [ok |-> TRUE, url |-> Uri(base.scheme, rel.path)]

\* Url::set_path
UrlSetPath(u, p) == Uri(u.scheme, p)

\* a faulty whitelist that lets http through; C7 must not hold of it
WhiteList_WithHttp ==
    {"gemini", "mercury", "data", "gopher", "finger", "file", "spartan", "http"}

\* the scheme whitelist of GemView::absolute_url
WhiteList == {"gemini", "mercury", "data", "gopher", "finger", "file", "spartan"}

\* GemView::absolute_url: [ok, url, signals] or [ok, err, signals]; signals
\* are the signals emitted on the way
Signal(n, a) == [name |-> n, args |-> a]

AbsoluteUrl(addr, current) ==
    LET p == UrlParse(addr) IN
    IF p.ok
    THEN IF p.url.scheme \in WhiteList
         THEN [ok |-> TRUE, url |-> p.url, signals |-> <<>>]
         ELSE [ok |-> FALSE, err |-> <<"unsupported-scheme", p.url.scheme>>,
               signals |-> <<Signal("request-unsupported-scheme", <<addr>>)>>]
    ELSE IF p.err = <<"RelativeUrlWithoutBase">>
         THEN LET origin == UrlParse(current) IN
              IF ~origin.ok THEN [ok |-> FALSE, err |-> origin.err, signals |-> <<>>]
              ELSE LET new == UrlJoin(origin.url, addr) IN
                   IF new.ok THEN [ok |-> TRUE, url |-> new.url, signals |-> <<>>]
                   ELSE [ok |-> FALSE, err |-> new.err, signals |-> <<>>]
         ELSE [ok |-> FALSE, err |-> p.err, signals |-> <<>>]

\* --------------------------------------------------------------- content
\* response bodies; a body is an atom, what the code computes from its bytes
\* is tabulated below
BodyGmi    == "# Hello"
BodyPrompt == "=: /b upload"
BodyPng    == "PNG"
BodyZip    == "PK"

\* tree_magic_mini::from_u8
Sniff(bytes) ==
    CASE bytes = BodyPng -> "image/png"
      [] bytes = BodyZip -> "application/zip"
      [] OTHER           -> "text/plain"

\* gdk Pixbuf::from_stream succeeds on image data only
PixbufOk(bytes) == bytes = BodyPng

\* the targets of the Prompt nodes Parser::parse finds in a document
PromptLinks(bytes) ==
    IF bytes = BodyPrompt THEN {Uri("", "//h/b")} ELSE {}

\* str::starts_with on the mime strings of the model
TextMimes  == {"text/gemini", "text/plain"}
ImageMimes == {"image/png"}
StartsWithText(m)  == m \in TextMimes
StartsWithImage(m) == m \in ImageMimes

\* ---------------------------------------------------------------- render
\* The view is the set of active upload (prompt) links of the rendered page.
\* render_gmi clears the view and inserts the nodes; insert_prompt_link makes
\* a prompt an active link only while the current uri is a spartan one
RenderGmi(h, bytes) ==
    IF h.uri.scheme = "spartan" THEN PromptLinks(bytes) ELSE {}

\* render_text clears the view
RenderText == {}

\* render_image_from_bytes clears the view only if the bytes decode
RenderImage(v, bytes) == IF PixbufOk(bytes) THEN {} ELSE v

\* ----------------------------------------------------------------- loads
\* One record per call of load() or post_spartan():
\*   id        the number of the call, counted from 1
\*   op        the public operation that made the call
\*   addr      the address passed to load()
\*   driver    the load_* function chosen ("none": no driver was started)
\*   url       the url the receiver closure captured
\*   wurl      the worker thread's own `url` variable
\*   wpc       the worker's position: request (in the loop), done,
\*             panicked, none (no worker)
\*   response  what the request of the last pass of the worker's loop did:
\*             Ok(response), Err(error) or Panic (None before the first pass)
\*   chan      the channel: messages sent and not yet received
\*   sent      number of messages the worker has sent
\*   attached  the receiver is still attached to the main context
\*   handled   number of messages the receiver closure has handled
\*   events    the signals emitted for this load, in order
\*   before    history and buffer when the public operation was invoked
Snapshot(h, b) == [history |-> h, buffer |-> b]

NewLoad(id, op, addr, before) ==
    [id |-> id, op |-> op, addr |-> addr, driver |-> "none", url |-> None,
     wurl |-> None, wpc |-> "none", response |-> None, chan |-> <<>>,
     sent |-> 0, attached |-> FALSE, handled |-> 0, events |-> <<>>,
     before |-> before]

Emit(rec, sig) == [rec EXCEPT !.events = Append(@, sig)]

EmitAll(rec, sigs) == [rec EXCEPT !.events = @ \o sigs]

\* the state a controller step leaves behind: history, buffer, view, whether
\* the main thread survived, and the load record
Res(h, b, v, a, rec) ==
    [history |-> h, buffer |-> b, view |-> v, alive |-> a, rec |-> rec]

\* MainContext::channel + thread::spawn + receiver.attach
Spawn(rec, driver, url) ==
    [rec EXCEPT !.driver = driver, !.url = Some(url), !.wurl = Some(url),
                !.wpc = "request", !.attached = TRUE]

\* ------------------------------------------------------------- data: urls
\* the data: urls of the model, by the text after "data:"
DataText    == "text/plain,hi"
DataPng     == "image/png;base64,PNG"
DataUnknown == "x/y,hi"
DataNoComma == "text/plain"
DataBadB64  == "text/plain;base64,!"

\* DataUrl::try_from
DataUrlTryFrom(url) ==
    CASE url.scheme # "data"     -> [ok |-> FALSE, err |-> <<"Not a data url">>]
      [] url.path = DataNoComma  -> [ok |-> FALSE, err |-> <<"Malformed url">>]
      [] url.path = DataText     ->
            [ok |-> TRUE, mime |-> "TextPlain", base64 |-> FALSE, data |-> "hi"]
      [] url.path = DataPng      ->
            [ok |-> TRUE, mime |-> "ImagePng", base64 |-> TRUE, data |-> "PNG"]
      [] url.path = DataBadB64   ->
            [ok |-> TRUE, mime |-> "TextPlain", base64 |-> TRUE, data |-> "!"]
      [] OTHER                   ->
            [ok |-> TRUE, mime |-> "Unknown", base64 |-> FALSE, data |-> "hi"]

\* DataUrl::decode
DataDecode(d) ==
    CASE d.mime = "Unknown"            -> [ok |-> FALSE]
      [] d.base64 /\ d.data = "!"      -> [ok |-> FALSE]
      [] d.base64 /\ d.data = "PNG"    -> [ok |-> TRUE, data |-> BodyPng]
      [] OTHER                         -> [ok |-> TRUE, data |-> d.data]

\* the mime names load_data writes to the buffer
DataMimeName(m) ==
    CASE m = "TextPlain"  -> "text/plain"
      [] m = "TextGemini" -> "text/gemini"
      [] m = "ImageJpeg"  -> "image/jpeg"
      [] m = "ImageSvg"   -> "image/svg+xml"
      [] m = "ImagePng"   -> "image/png"
      [] OTHER            -> "image/other"

\* GemView::load_data
LoadData(url, h, b, v, rec) ==
    LET d == DataUrlTryFrom(url) IN
    IF ~d.ok
    THEN Res(h, b, v, TRUE, Emit(rec, Signal("page-load-failed", <<d.err>>)))
    ELSE IF d.mime = "Unknown"
    THEN Res(h, b, v, TRUE,
             Emit(rec, Signal("page-load-failed", <<<<"unrecognized data type">>>>)))
    ELSE LET pl == DataDecode(d) IN
         IF ~pl.ok
         THEN Res(h, b, v, FALSE, rec)      \* `_ => unreachable!()` panics
         ELSE LET h2 == AppendHistoryTo(h, url)
                  b2 == [mime |-> DataMimeName(d.mime), content |-> pl.data]
                  v2 == CASE d.mime = "TextPlain"  -> RenderText
                          [] d.mime = "TextGemini" -> RenderGmi(h2, pl.data)
                          [] OTHER                 -> RenderImage(v, pl.data)
              IN  Res(h2, b2, v2, TRUE, Emit(rec, Signal("page-loaded", <<url>>)))

\* ------------------------------------------------------------ file: urls
\* what the file system answers for one load_file call: the mime
\* tree_magic_mini::from_filepath finds (None if it finds none) and the
\* result of Content::try_from(url) (None for Err)
Content(u, m, bytes) == [url |-> u, mime |-> m, bytes |-> bytes]

FileEnvs ==
    { [probe |-> Some("application/zip"), content |-> None],
      [probe |-> Some("text/plain"),
       content |-> Some(Content(None, "text/gemini", BodyPrompt))],
      [probe |-> Some("image/png"),
       content |-> Some(Content(None, "image/png", BodyPng))],
      [probe |-> None,
       content |-> Some(Content(None, "application/zip", BodyZip))],
      [probe |-> None, content |-> None] }

\* GemView::load_file
LoadFile(url, env, h, b, v, rec) ==
    IF /\ IsSome(env.probe)
       /\ ~StartsWithText(env.probe[1])
       /\ ~StartsWithImage(env.probe[1])
       /\ env.probe[1] # "inode/directory"
    THEN Res(h, b, v, TRUE, Emit(rec, Signal("page-loaded", <<url>>)))
    ELSE IF ~IsSome(env.content)
    THEN Res(h, b, v, TRUE, rec)
    ELSE LET c  == env.content[1]
             h2 == AppendHistoryTo(h, url)
             b2 == [mime |-> c.mime, content |-> c.bytes]
             r2 == Emit(rec, Signal("page-loaded", <<url>>))
         IN  CASE c.mime = "text/gemini" ->
                    Res(h2, b2, RenderGmi(h2, c.bytes), TRUE, r2)
               [] c.mime # "text/gemini" /\ StartsWithText(c.mime) ->
                    Res(h2, b2, RenderText, TRUE, r2)
               [] StartsWithImage(c.mime) ->
                    Res(h2, b2, RenderImage(v, c.bytes), TRUE, r2)
               [] OTHER -> Res(h, b, v, TRUE, rec)

\* ------------------------------------------------------------------ load
\* GemView::load up to the point where it returns to its caller
Load(id, op, addr, env, h, b, v, before) ==
    LET rec == Emit(NewLoad(id, op, addr, before),
                    Signal("page-load-started", <<addr>>))
        a   == AbsoluteUrl(addr, h.uri)
    IN  IF ~a.ok
        THEN Res(h, b, v, TRUE,
                 Emit(EmitAll(rec, a.signals),
                      Signal("page-load-failed", <<a.err>>)))
        ELSE CASE a.url.scheme = "data"    -> LoadData(a.url, h, b, v, rec)
               [] a.url.scheme = "gemini"  -> Res(h, b, v, TRUE, Spawn(rec, "gemini", a.url))
               [] a.url.scheme = "gopher"  -> Res(h, b, v, TRUE, Spawn(rec, "gopher", a.url))
               [] a.url.scheme = "file"    -> LoadFile(a.url, env, h, b, v, rec)
               [] a.url.scheme = "finger"  -> Res(h, b, v, TRUE, Spawn(rec, "finger", a.url))
               [] a.url.scheme = "spartan" -> Res(h, b, v, TRUE, Spawn(rec, "spartan", a.url))
               [] OTHER                    -> Res(h, b, v, TRUE, rec)

\* -------------------------------------------------------------- messages
\* scheme::Response, the message type of the channels
MsgSuccess(c)  == [type |-> "Success", content |-> c]
MsgRedirect(u) == [type |-> "Redirect", url |-> u]
MsgInput(i)    == [type |-> "RequestInput", input |-> i]
MsgError(e)    == [type |-> "Error", err |-> e]

\* sender.send(msg).expect(..): the send fails, and the worker panics, once
\* the receiver has been detached
Send(rec, msg) ==
    IF rec.attached
    THEN [rec EXCEPT !.chan = Append(@, msg), !.sent = @ + 1, !.wpc = "done"]
    ELSE [rec EXCEPT !.wpc = "panicked"]

\* ------------------------------------------------------- the servers' side
PathA == "//h/a"
PathB == "//h/b"

\* a url with an empty path, and one whose path is "/"
PathNone == "//h"
PathDir  == "//h/"

\* a META of a success response: the mime, the separator that follows it
\* ("" if nothing follows) and the parameters
Meta(m, sep, params) == [mime |-> m, sep |-> sep, params |-> params]

\* a META that is a prompt or a message for the user
Text(t) == [text |-> t]

\* a META that is a path
Path(p) == [path |-> p]

\* the whole META as one string
MetaString(meta) == meta.mime \o meta.sep \o meta.params

\* the (META, body) pairs Gemini servers answer a success with: gemtext, an
\* undeclared type that is text, and an archive
GeminiSuccessPairs ==
    { <<Meta("text/gemini", ";", "lang=en"), BodyPrompt>>,
      <<Meta("application/octet-stream", "", ""), BodyGmi>>,
      <<Meta("application/zip", "", ""), BodyZip>> }

\* the (META, body) pairs Spartan servers answer a success with: gemtext
\* with an upload prompt, an image, and an archive
SpartanSuccessPairs ==
    { <<Meta("text/gemini", " ", "lang=en"), BodyPrompt>>,
      <<Meta("image/png", "", ""), BodyPng>>,
      <<Meta("application/zip", "", ""), BodyZip>> }

\* the status bytes Gemini servers answer with
InputStatus    == {10, 11}
RedirectStatus == {31}
FailStatus     == {40, 51, 60, 99}

\* the METAs of Gemini redirects: two absolute urls and a relative reference
GeminiRedirectMetas == {Uri("gemini", PathA), Uri("gemini", PathB), Uri("", PathB)}

\* StatusCode::from(u8)
StatusCodeFrom(i) ==
    IF i > 99 THEN <<"Unknown", i>>
    ELSE LET first_digit  == i % 10
             second_digit == i \div 10
         IN  CASE second_digit = 1 -> <<"Input", first_digit>>
               [] second_digit = 2 -> <<"Success", first_digit>>
               [] second_digit = 3 -> <<"Redirect", first_digit>>
               [] second_digit = 4 -> <<"TemporaryFailure", first_digit>>
               [] second_digit = 5 -> <<"PermanentFailure", first_digit>>
               [] second_digit = 6 -> <<"ClientCertRequired", first_digit>>
               [] OTHER            -> <<"Unknown", i>>

\* gemini::protocol::Response
Response(status, meta, data) == [status |-> status, meta |-> meta, data |-> data]

\* the responses a Gemini or Mercury server can give, as parsed by
\* protocol::Response::try_from
GeminiResponses ==
    { Response(StatusCodeFrom(20), p[1], p[2]) : p \in GeminiSuccessPairs }
    \cup { Response(StatusCodeFrom(n), m, "") :
              n \in RedirectStatus, m \in GeminiRedirectMetas }
    \cup { Response(StatusCodeFrom(n), Text("Enter query"), "") : n \in InputStatus }
    \cup { Response(StatusCodeFrom(n), Text("failure"), "") : n \in FailStatus }

\* what a call of a request driver can do: return Ok, return Err, or panic
Ok(r)  == [kind |-> "ok", response |-> r]
Err(e) == [kind |-> "err", err |-> e]
Panic  == [kind |-> "panic"]

\* the errors of a driver: a failed connection or stream, or (Gemini,
\* Spartan) a response that does not parse
DriverErrors == {<<"IoError">>}

\* gemini::request::make_request: every result the call can have
MakeRequest(url) ==
    IF url.scheme \in {"gemini", "mercury"}
    THEN { Ok(r) : r \in GeminiResponses } \cup { Err(e) : e \in DriverErrors }
    ELSE { Err(<<"UnknownScheme", url.scheme>>) }

\* ---------------------------------------------------------- gemini worker
\* the mime load_gemini derives from the META of a success
GeminiMime(meta) ==
    IF meta.mime = "text/gemini" THEN "text/gemini"
    ELSE IF meta.sep = ";" THEN meta.mime
    ELSE MetaString(meta)

\* Url::try_from(&str): from an absolute reference only
UrlTryFrom(meta) == UrlParse(meta)

\* one pass of `match response.status` in the worker of load_gemini:
\* either the loop goes on with a new url or a message is sent
Continue(url) == [again |-> TRUE, url |-> url]
Finish(msg)   == [again |-> FALSE, msg |-> msg]

GeminiMatch(url, response) ==
    LET class == response.status[1]
        code  == response.status[2]
    IN  CASE class = "Redirect" ->
               LET r == UrlTryFrom(response.meta) IN
               IF r.ok THEN Continue(r.url) ELSE Finish(MsgError(r.err))
          [] class = "Success" ->
               Finish(MsgSuccess(Content(Some(url), GeminiMime(response.meta),
                                         response.data)))
          [] class = "Input" ->
               Finish(MsgInput([meta |-> response.meta, url |-> url,
                                sensitive |-> code]))
          [] OTHER -> Finish(MsgError(response.status))

\* --------------------------------------------------------- spartan worker
\* the responses a Spartan server can give, as parsed by
\* spartan::Response::try_from; the META of a redirect is a path
SpartanResponses ==
    { Response("Success", p[1], p[2]) : p \in SpartanSuccessPairs }
    \cup { Response("Redirect", Path(m), "") : m \in {PathA, PathB} }
    \cup { Response(st, Text("failure"), "") : st \in {"ClientError", "ServerError"} }

\* spartan::request and spartan::post: every result the call can have; the
\* write_all(..).unwrap() and read_to_end(..).unwrap() panic on an i/o error
SpartanRequest(url) ==
    { Ok(r) : r \in SpartanResponses } \cup { Err(e) : e \in DriverErrors }
    \cup { Panic }

\* the mime Response::to_message derives from the META of a success
SpartanMime(meta) ==
    IF meta.mime = "text/gemini" THEN "text/gemini"
    ELSE IF meta.sep = " " THEN meta.mime
    ELSE MetaString(meta)

\* spartan::Response::to_message (called as into_message): the message and
\* the value it leaves in the worker's url
IntoMessage(response, url) ==
    CASE response.status = "Redirect" ->
           LET u == UrlSetPath(url, response.meta.path)
           IN  [msg |-> MsgRedirect(u), url |-> u]
      [] response.status = "Success" ->
           [msg |-> MsgSuccess(Content(Some(url), SpartanMime(response.meta),
                                       response.data)),
            url |-> url]
      [] OTHER -> [msg |-> MsgError(<<"Client Error">>), url |-> url]

\* one pass of the worker loop of load_spartan and post_spartan after the
\* request has returned Ok
SpartanMatch(url, response) ==
    LET m == IntoMessage(response, url) IN
    IF m.msg.type = "Redirect" THEN Continue(m.url) ELSE Finish(m.msg)

\* -------------------------------------------------- gopher, finger workers
BodyMap == "1Dir\t/d\th\t70"

\* Content::from_bytes
ContentFromBytes(bytes) == Content(None, Sniff(bytes), bytes)

\* GopherMap::is_map on the bodies of the model
IsMap(content) == StartsWithText(content.mime) /\ content.bytes = BodyMap

\* gopher::request: every result the call can have
GopherRequest(url) ==
    { Ok(ContentFromBytes(bytes)) : bytes \in {BodyMap, BodyPng, BodyZip} }
    \cup { Err(<<"IoError">>), Panic }

\* finger::request: every result the call can have
FingerRequest(url) ==
    { Ok(ContentFromBytes(bytes)) : bytes \in {BodyGmi} }
    \cup { Err(<<"IoError">>), Panic }

\* the worker of load_gopher and load_finger: Ok becomes Success, Err Error
ContentWorker(out) ==
    IF out.kind = "ok" THEN MsgSuccess(out.response) ELSE MsgError(out.err)

\* ------------------------------------------------------------- receivers
\* Url::path_segments().last() of the urls of the model
LastSegment(url) ==
    CASE url.path = PathA -> "a"
      [] url.path = PathB -> "b"
      [] OTHER            -> ""

\* a faulty file name without the default; C34 must not hold of it
Filename_NoDefault(url) == LastSegment(url)

\* the suggested file name of a download: Url::path_segments is None for a
\* url that cannot be a base and for an empty path, and its last segment
\* is "" for a path that ends in "/"
Filename(url) ==
    IF CannotBeABase(url) \/ url.path = PathNone THEN "download"
    ELSE LastSegment(url)

\* a faulty process_gemini_response_success that appends the url the load
\* was started with instead of the url of the response; C8 must not hold of it
ProcessGeminiResponseSuccess_OriginalUrl(content, url, h, b, v, rec) ==
    LET b2 == [mime |-> content.mime, content |-> content.bytes]
        h2 == AppendHistoryTo(h, url)
    IN  IF StartsWithText(Sniff(content.bytes)) \/ StartsWithImage(Sniff(content.bytes))
           \/ StartsWithText(content.mime) \/ StartsWithImage(content.mime)
        THEN Res(h2, b2, {}, TRUE, Emit(rec, Signal("page-loaded", <<url>>)))
        ELSE Res(h, b2, v, TRUE,
                 Emit(rec, Signal("request-download",
                                  <<content.mime, Filename(url)>>)))

\* GemView::process_gemini_response_success
ProcessGeminiResponseSuccess(content, url, h, b, v, rec) ==
    LET b2      == [mime |-> content.mime, content |-> content.bytes]
        end_url == content.url[1]
        h2      == AppendHistoryTo(h, end_url)
        r2      == Emit(rec, Signal("page-loaded", <<end_url>>))
        derived == Sniff(content.bytes)
    IN  CASE content.mime = "text/gemini" ->
               Res(h2, b2, RenderGmi(h2, content.bytes), TRUE, r2)
          [] content.mime # "text/gemini" /\ StartsWithText(content.mime) ->
               Res(h2, b2, RenderText, TRUE, r2)
          [] StartsWithImage(content.mime) ->
               Res(h2, b2, RenderImage(v, content.bytes), TRUE, r2)
          [] OTHER ->
               IF StartsWithText(derived)
               THEN Res(h2, b2, RenderText, TRUE, r2)
               ELSE IF StartsWithImage(derived)
               THEN Res(h2, b2, RenderImage(v, content.bytes), TRUE, r2)
               ELSE Res(h, b2, v, TRUE,
                        Emit(rec, Signal("request-download",
                                         <<content.mime, Filename(url)>>)))

Failed(h, b, v, rec, err) ==
    Res(h, b, v, TRUE, Emit(rec, Signal("page-load-failed", <<err>>)))

\* the number of parameters a signal is registered with (ObjectImpl::signals)
SignalArity(name) ==
    IF name \in {"request-download", "request-input"} THEN 2 ELSE 1

\* emit_by_name in a receiver closure: glib panics when the number of
\* arguments is not the number the signal is registered with
EmitChecked(h, b, v, rec, sig) ==
    IF Len(sig.args) = SignalArity(sig.name)
    THEN Res(h, b, v, TRUE, Emit(rec, sig))
    ELSE Res(h, b, v, FALSE, rec)

\* the receiver closure of load_gemini
GeminiReceive(msg, url, h, b, v, rec) ==
    CASE msg.type = "RequestInput" ->
           LET signal == IF msg.input.sensitive = 1
                         THEN "request-input-sensitive" ELSE "request-input"
           IN  EmitChecked(AppendHistoryTo(h, msg.input.url), b, v, rec,
                           Signal(signal, <<msg.input.meta, msg.input.url>>))
      [] msg.type = "Success" ->
           ProcessGeminiResponseSuccess(msg.content, url, h, b, v, rec)
      [] msg.type = "Redirect" -> Res(h, b, v, TRUE, rec)
      [] OTHER -> Failed(h, b, v, rec, msg.err)

\* the receiver closure of load_spartan
SpartanReceive(msg, url, h, b, v, rec) ==
    CASE msg.type = "Success" ->
           ProcessGeminiResponseSuccess(msg.content, url, h, b, v, rec)
      [] msg.type = "Error" -> Failed(h, b, v, rec, msg.err)
      [] OTHER -> Res(h, b, v, FALSE, rec)          \* unreachable!()

\* the receiver closure of post_spartan
PostReceive(msg, url, h, b, v, rec) ==
    CASE msg.type = "Success" ->
           ProcessGeminiResponseSuccess(msg.content, url, h, b, v, rec)
      [] msg.type = "Redirect" -> Res(h, b, v, TRUE, rec)
      [] msg.type = "Error" -> Failed(h, b, v, rec, msg.err)
      [] OTHER -> Res(h, b, v, FALSE, rec)          \* unreachable!()

\* a faulty receiver that renders a text or image response without making
\* its url current; C36 must not hold of it
GopherReceive_NoAppend(msg, url, h, b, v, rec) ==
    CASE msg.type = "Success" ->
           LET c  == msg.content
               b2 == [mime |-> c.mime, content |-> c.bytes]
               r2 == Emit(rec, Signal("page-loaded", <<url>>))
           IN  IF StartsWithText(c.mime)
               THEN Res(h, b2, IF IsMap(c) THEN {} ELSE RenderText, TRUE, r2)
               ELSE IF StartsWithImage(c.mime)
               THEN Res(h, b2, RenderImage(v, c.bytes), TRUE, r2)
               ELSE Res(h, b2, v, TRUE,
                        Emit(rec, Signal("request-download",
                                         <<c.mime, Filename(url)>>)))
      [] msg.type = "Error" -> Failed(h, b, v, rec, msg.err)
      [] OTHER -> Res(h, b, v, FALSE, rec)

\* the receiver closure of load_gopher
GopherReceive(msg, url, h, b, v, rec) ==
    CASE msg.type = "Success" ->
           LET c  == msg.content
               b2 == [mime |-> c.mime, content |-> c.bytes]
               h2 == AppendHistoryTo(h, url)
               r2 == Emit(rec, Signal("page-loaded", <<url>>))
           IN  IF StartsWithText(c.mime)
               THEN Res(h2, b2, IF IsMap(c) THEN {} ELSE RenderText, TRUE, r2)
               ELSE IF StartsWithImage(c.mime)
               THEN Res(h2, b2, RenderImage(v, c.bytes), TRUE, r2)
               ELSE Res(h, b2, v, TRUE,
                        Emit(rec, Signal("request-download",
                                         <<c.mime, Filename(url)>>)))
      [] msg.type = "Error" -> Failed(h, b, v, rec, msg.err)
      [] OTHER -> Res(h, b, v, FALSE, rec)          \* unreachable!()

\* the receiver closure of load_finger
FingerReceive(msg, url, h, b, v, rec) ==
    CASE msg.type = "Success" ->
           LET c == msg.content IN
           Res(AppendHistoryTo(h, url), [mime |-> c.mime, content |-> c.bytes],
               RenderText, TRUE, Emit(rec, Signal("page-loaded", <<url>>)))
      [] msg.type = "Error" -> Failed(h, b, v, rec, msg.err)
      [] OTHER -> Res(h, b, v, FALSE, rec)          \* unreachable!()

\* the closure attached to the channel of a load, by driver
Receiver(msg, rec, h, b, v) ==
    LET url == rec.url[1] IN
    CASE rec.driver = "gemini"  -> GeminiReceive(msg, url, h, b, v, rec)
      [] rec.driver = "spartan" -> SpartanReceive(msg, url, h, b, v, rec)
      [] rec.driver = "post"    -> PostReceive(msg, url, h, b, v, rec)
      [] rec.driver = "gopher"  -> GopherReceive(msg, url, h, b, v, rec)
      [] OTHER                  -> FingerReceive(msg, url, h, b, v, rec)

\* ---------------------------------------------------------------- inputs
\* the addresses passed to visit()
Addresses ==
    { Uri("GEMINI", PathA), Uri("spartan", PathA), Uri("gopher", PathA),
      Uri("finger", PathA), Uri("file", PathA), Uri("mercury", PathA),
      Uri("http", PathA), Uri("data", DataText), Uri("", PathB) }

\* the uris passed to append_history()
AppendUris == { Uri("gemini", PathA), Uri("gemini", PathB) }

\* the uris passed to set_uri()
SetUris == { Uri("spartan", PathB) }

\* the urls passed to post_spartan()
PostUrls == { Uri("spartan", PathA) }

\* ----------------------------------------------------------------- state
\* the widget after construction
InitSession ==
    /\ history = HistoryDefault
    /\ buffer = BufferDefault
    /\ view = {}
    /\ alive = TRUE
    /\ loads = <<>>
    /\ last = None
    /\ nloads = 0
    /\ napi = 0

Init ==
    /\ InitSession
    /\ raw = <<>>
    /\ parsed = None

\* a load is over when load() has returned without starting a worker or when
\* the receiver closure has returned Continue(false)
Live(rec) == rec.attached

\* a controller step that calls load() or post_spartan() leaves r behind
Apply(r) ==
    /\ history' = r.history
    /\ buffer' = r.buffer
    /\ view' = r.view
    /\ alive' = r.alive
    /\ nloads' = nloads + 1
    /\ napi' = napi
    /\ UNCHANGED <<raw, parsed>>
    /\ IF Live(r.rec)
       THEN loads' = Append(loads, r.rec) /\ last' = last
       ELSE loads' = loads /\ last' = Some(r.rec)

\* the run may start another load
CanLoad == nloads < MaxLoads /\ Len(loads) < MaxInFlight

\* the file system matters to file: urls only
Envs(addr, h) ==
    LET a == AbsoluteUrl(addr, h.uri) IN
    IF a.ok /\ a.url.scheme = "file" THEN FileEnvs
    ELSE {[probe |-> None, content |-> None]}

\* GemView::visit
Visit(addr) ==
    /\ alive
    /\ CanLoad
    /\ \E env \in Envs(addr, history) :
          Apply(Load(nloads + 1, "visit", addr, env, history, buffer, view,
                     Snapshot(history, buffer)))

\* GemView::reload
Reload ==
    /\ alive
    /\ CanLoad
    /\ \E env \in Envs(history.uri, history) :
          Apply(Load(nloads + 1, "reload", history.uri, env, history, buffer,
                     view, Snapshot(history, buffer)))

\* GemView::go_previous
GoPrevious ==
    /\ alive
    /\ CanLoad
    /\ LET p == HistoryPrevious(history) IN
       IF IsSome(p.ret)
       THEN \E env \in Envs(p.ret[1], p.hist) :
               Apply(Load(nloads + 1, "go_previous", p.ret[1], env, p.hist,
                          buffer, view, Snapshot(history, buffer)))
       ELSE UNCHANGED vars

\* GemView::go_next
GoNext ==
    /\ alive
    /\ CanLoad
    /\ LET n == HistoryNext(history) IN
       IF IsSome(n.ret)
       THEN \E env \in Envs(n.ret[1], n.hist) :
               Apply(Load(nloads + 1, "go_next", n.ret[1], env, n.hist,
                          buffer, view, Snapshot(history, buffer)))
       ELSE UNCHANGED vars

\* the embedding application restores its history, with append_history and
\* set_uri, before it starts to browse
CanCall == napi < MaxApi /\ nloads = 0

\* GemView::append_history called by the embedding application
AppendHistory(uri) ==
    /\ alive
    /\ CanCall
    /\ history' = AppendHistoryTo(history, uri)
    /\ napi' = napi + 1
    /\ UNCHANGED <<buffer, view, alive, loads, last, nloads, raw, parsed>>

\* GemView::set_uri called by the embedding application
SetUri(uri) ==
    /\ alive
    /\ CanCall
    /\ history' = SetUriOf(history, uri)
    /\ napi' = napi + 1
    /\ UNCHANGED <<buffer, view, alive, loads, last, nloads, raw, parsed>>

\* the activate-link closure of insert_prompt_link: set_uri, then the
\* request-upload signal; the unwrap()s panic when the current uri does not
\* parse or cannot be joined to
ActivatePrompt(link) ==
    /\ alive
    /\ link \in view
    /\ LET u == UrlParse(history.uri) IN
       IF link.scheme = "spartan"
       THEN history' = SetUriOf(history, link) /\ alive' = alive
       ELSE IF u.ok /\ UrlJoin(u.url, link).ok
       THEN history' = SetUriOf(history, UrlJoin(u.url, link).url) /\ alive' = alive
       ELSE history' = history /\ alive' = FALSE
    /\ UNCHANGED <<buffer, view, loads, last, nloads, napi, raw, parsed>>

\* GemView::post_spartan
PostSpartan(url) ==
    /\ alive
    /\ CanLoad
    /\ Apply(Res(history, buffer, view, TRUE,
                 Spawn(NewLoad(nloads + 1, "post_spartan", url,
                               Snapshot(history, buffer)), "post", url)))

Remove(seq, l) == SubSeq(seq, 1, l - 1) \o SubSeq(seq, l + 1, Len(seq))

\* a faulty main loop that drops the message of a load when a newer load has
\* been started since; C12 must not hold of it
Receive_DropsStale(l) ==
    /\ alive
    /\ loads[l].attached
    /\ Len(loads[l].chan) > 0
    /\ LET rec == [loads[l] EXCEPT !.chan = Tail(@), !.handled = @ + 1,
                                   !.attached = FALSE]
           r   == IF loads[l].id < nloads
                  THEN Res(history, buffer, view, TRUE, rec)
                  ELSE Receiver(Head(loads[l].chan), rec, history, buffer, view)
       IN  /\ history' = r.history
           /\ buffer' = r.buffer
           /\ view' = r.view
           /\ alive' = r.alive
           /\ loads' = Remove(loads, l)
           /\ last' = Some([r.rec EXCEPT !.response = None])
    /\ UNCHANGED <<nloads, napi, raw, parsed>>

\* the main loop hands the message of load l to its receiver closure, which
\* returns Continue(false): the channel and the closure are dropped
Receive(l) ==
    /\ alive
    /\ loads[l].attached
    /\ Len(loads[l].chan) > 0
    /\ LET rec == [loads[l] EXCEPT !.chan = Tail(@), !.handled = @ + 1,
                                   !.attached = FALSE]
           r   == Receiver(Head(loads[l].chan), rec, history, buffer, view)
       IN  /\ history' = r.history
           /\ buffer' = r.buffer
           /\ view' = r.view
           /\ alive' = r.alive
           /\ loads' = Remove(loads, l)
           /\ last' = Some([r.rec EXCEPT !.response = None])
    /\ UNCHANGED <<nloads, napi, raw, parsed>>

\* ------------------------------------------------------- worker threads
\* one pass of the loop of a worker: Ok continues the loop or sends the
\* message, Err sends an Error message, a panic kills the thread
WorkerPass(rec, out, m) ==
    LET r == [rec EXCEPT !.response = Some(out)] IN
    CASE out.kind = "panic" -> [r EXCEPT !.wpc = "panicked"]
      [] out.kind = "err"   -> Send(r, MsgError(out.err))
      [] OTHER ->
           IF m.again THEN [r EXCEPT !.wurl = Some(m.url)] ELSE Send(r, m.msg)

\* the worker of load_gemini
GeminiWorker(l) ==
    /\ alive
    /\ loads[l].driver = "gemini"
    /\ loads[l].wpc = "request"
    /\ \E out \in MakeRequest(loads[l].wurl[1]) :
          loads' = [loads EXCEPT ![l] =
                      WorkerPass(@, out,
                                 IF out.kind = "ok"
                                 THEN GeminiMatch(@.wurl[1], out.response)
                                 ELSE Continue(@.wurl[1]))]
    /\ UNCHANGED <<history, buffer, view, alive, last, nloads, napi, raw, parsed>>

\* the worker of load_spartan and post_spartan
SpartanWorker(l) ==
    /\ alive
    /\ loads[l].driver \in {"spartan", "post"}
    /\ loads[l].wpc = "request"
    /\ \E out \in SpartanRequest(loads[l].wurl[1]) :
          loads' = [loads EXCEPT ![l] =
                      WorkerPass(@, out,
                                 IF out.kind = "ok"
                                 THEN SpartanMatch(@.wurl[1], out.response)
                                 ELSE Continue(@.wurl[1]))]
    /\ UNCHANGED <<history, buffer, view, alive, last, nloads, napi, raw, parsed>>

\* the worker of load_gopher
GopherWorker(l) ==
    /\ alive
    /\ loads[l].driver = "gopher"
    /\ loads[l].wpc = "request"
    /\ \E out \in GopherRequest(loads[l].wurl[1]) :
          loads' = [loads EXCEPT ![l] =
                      WorkerPass(@, out,
                                 IF out.kind = "panic" THEN Continue(@.wurl[1])
                                 ELSE Finish(ContentWorker(out)))]
    /\ UNCHANGED <<history, buffer, view, alive, last, nloads, napi, raw, parsed>>

\* the worker of load_finger
FingerWorker(l) ==
    /\ alive
    /\ loads[l].driver = "finger"
    /\ loads[l].wpc = "request"
    /\ \E out \in FingerRequest(loads[l].wurl[1]) :
          loads' = [loads EXCEPT ![l] =
                      WorkerPass(@, out,
                                 IF out.kind = "panic" THEN Continue(@.wurl[1])
                                 ELSE Finish(ContentWorker(out)))]
    /\ UNCHANGED <<history, buffer, view, alive, last, nloads, napi, raw, parsed>>

Next ==
    \/ \E addr \in Addresses : Visit(addr)
    \/ Reload
    \/ GoPrevious
    \/ GoNext
    \/ \E uri \in AppendUris : AppendHistory(uri)
    \/ \E uri \in SetUris : SetUri(uri)
    \/ \E link \in view : ActivatePrompt(link)
    \/ \E url \in PostUrls : PostSpartan(url)
    \/ \E l \in DOMAIN loads : Receive(l)
    \/ \E l \in DOMAIN loads : GeminiWorker(l)
    \/ \E l \in DOMAIN loads : SpartanWorker(l)
    \/ \E l \in DOMAIN loads : GopherWorker(l)
    \/ \E l \in DOMAIN loads : FingerWorker(l)

Spec == Init /\ [][Next]_vars

\* ---------------------------------------------------------- downloads
\* the addresses of the loads that may end in a download: with a last path
\* segment, with an empty one, and with no path
DownloadAddresses ==
    { Uri("gemini", PathA), Uri("gemini", PathNone), Uri("spartan", PathDir),
      Uri("gopher", PathA), Uri("gopher", PathNone), Uri("gopher", PathDir) }

NextDownload ==
    \/ \E addr \in DownloadAddresses : Visit(addr)
    \/ \E l \in DOMAIN loads : Receive(l)
    \/ \E l \in DOMAIN loads : GeminiWorker(l)
    \/ \E l \in DOMAIN loads : SpartanWorker(l)
    \/ \E l \in DOMAIN loads : GopherWorker(l)

SpecDownload == Init /\ [][NextDownload]_vars

\* ------------------------------------------------ history operations
\* the uris passed to append_history() while browsing: two pages and the
\* uri of the empty view
HistoryUris == { Uri("gemini", PathA), Uri("gemini", PathB), AboutBlank }

\* GemView::append_history called by the embedding application at any time
AppendHistoryAnyTime(uri) ==
    /\ alive
    /\ napi < MaxApi
    /\ history' = AppendHistoryTo(history, uri)
    /\ napi' = napi + 1
    /\ UNCHANGED <<buffer, view, alive, loads, last, nloads, raw, parsed>>

NextHistory ==
    \/ \E uri \in HistoryUris : AppendHistoryAnyTime(uri)
    \/ GoPrevious
    \/ GoNext
    \/ \E l \in DOMAIN loads : Receive(l)
    \/ \E l \in DOMAIN loads : GeminiWorker(l)

SpecHistory == Init /\ [][NextHistory]_vars

\* ------------------------------------------- overlapping navigations
\* the addresses visited while another load is in flight
ConcurrentAddresses == { Uri("gemini", PathA), Uri("gopher", PathB) }

\* the run may start another load while fewer than MaxConcurrent are in
\* flight
CanLoadConcurrent == nloads < MaxLoads /\ Len(loads) < MaxConcurrent

\* GemView::visit, called without waiting for the loads in flight
VisitConcurrent(addr) ==
    /\ alive
    /\ CanLoadConcurrent
    /\ \E env \in Envs(addr, history) :
          Apply(Load(nloads + 1, "visit", addr, env, history, buffer, view,
                     Snapshot(history, buffer)))

NextConcurrent ==
    \/ \E addr \in ConcurrentAddresses : VisitConcurrent(addr)
    \/ \E l \in DOMAIN loads : Receive(l)
    \/ \E l \in DOMAIN loads : GeminiWorker(l)
    \/ \E l \in DOMAIN loads : GopherWorker(l)

SpecConcurrent == Init /\ [][NextConcurrent]_vars

\* ---------------------------------------------------- response parsers
\* A response is the sequence of the bytes read from the server, a byte being
\* a number in 0..255; a str is the sequence of the bytes of its UTF-8 form.

\* b'\n', ' ' and '+'
LF == 10
SP == 32
Plus == 43
\* '0'..'9'
Digits == 48..57
\* the largest u8
U8Max == 255

\* the ResponseParseErrors
EmptyResponse == <<"EmptyResponse">>
InvalidResponseHeader == <<"InvalidResponseHeader">>

\* core::str::from_utf8(s).is_ok(): s is a sequence of well-formed UTF-8
\* characters of one to four bytes
RECURSIVE Utf8From(_, _)
Utf8From(s, i) ==
    LET n == Len(s)
        cont(k, lo, hi) == k <= n /\ s[k] \in lo..hi
    IN  IF i > n THEN TRUE
        ELSE CASE s[i] < 128 -> Utf8From(s, i + 1)
               [] s[i] \in 194..223 ->
                    cont(i + 1, 128, 191) /\ Utf8From(s, i + 2)
               [] s[i] = 224 ->
                    cont(i + 1, 160, 191) /\ cont(i + 2, 128, 191)
                    /\ Utf8From(s, i + 3)
               [] s[i] \in (225..236) \cup {238, 239} ->
                    cont(i + 1, 128, 191) /\ cont(i + 2, 128, 191)
                    /\ Utf8From(s, i + 3)
               [] s[i] = 237 ->
                    cont(i + 1, 128, 159) /\ cont(i + 2, 128, 191)
                    /\ Utf8From(s, i + 3)
               [] s[i] = 240 ->
                    cont(i + 1, 144, 191) /\ cont(i + 2, 128, 191)
                    /\ cont(i + 3, 128, 191) /\ Utf8From(s, i + 4)
               [] s[i] \in 241..243 ->
                    cont(i + 1, 128, 191) /\ cont(i + 2, 128, 191)
                    /\ cont(i + 3, 128, 191) /\ Utf8From(s, i + 4)
               [] s[i] = 244 ->
                    cont(i + 1, 128, 143) /\ cont(i + 2, 128, 191)
                    /\ cont(i + 3, 128, 191) /\ Utf8From(s, i + 4)
               [] OTHER -> FALSE

Utf8Valid(s) == (\A i \in DOMAIN s : s[i] < 128) \/ Utf8From(s, 1)

\* the White_Space characters of one byte, and the second bytes of those of
\* two bytes (U+0085 and U+00A0, both led by 0xC2), that str::trim removes;
\* the White_Space characters of three bytes occur in no input of the model
AsciiWhiteSpace == {9, 10, 11, 12, 13, 32}
WhiteSpaceAfterC2 == {133, 160}

\* str::trim_start and str::trim_end of a well-formed str
RECURSIVE TrimStart(_)
TrimStart(s) ==
    IF Len(s) > 0 /\ s[1] \in AsciiWhiteSpace THEN TrimStart(Tail(s))
    ELSE IF Len(s) > 1 /\ s[1] = 194 /\ s[2] \in WhiteSpaceAfterC2
    THEN TrimStart(SubSeq(s, 3, Len(s)))
    ELSE s

RECURSIVE TrimEnd(_)
TrimEnd(s) ==
    LET n == Len(s) IN
    IF n > 0 /\ s[n] \in AsciiWhiteSpace THEN TrimEnd(SubSeq(s, 1, n - 1))
    ELSE IF n > 1 /\ s[n - 1] = 194 /\ s[n] \in WhiteSpaceAfterC2
    THEN TrimEnd(SubSeq(s, 1, n - 2))
    ELSE s

\* str::trim
Trim(s) == TrimEnd(TrimStart(s))

\* a faulty split that takes a header without a space for a status with an
\* empty META; C17 must not hold of it
SplitOnce_Lenient(s) ==
    IF \E i \in DOMAIN s : s[i] = SP
    THEN LET i == CHOOSE i \in DOMAIN s :
                     s[i] = SP /\ \A j \in 1..(i - 1) : s[j] # SP
         IN  [ok |-> TRUE, left |-> SubSeq(s, 1, i - 1),
              right |-> SubSeq(s, i + 1, Len(s))]
    ELSE [ok |-> TRUE, left |-> s, right |-> <<>>]

\* str::split_once(' '): the parts before and after the first space
SplitOnce(s) ==
    IF \E i \in DOMAIN s : s[i] = SP
    THEN LET i == CHOOSE i \in DOMAIN s :
                     s[i] = SP /\ \A j \in 1..(i - 1) : s[j] # SP
         IN  [ok |-> TRUE, left |-> SubSeq(s, 1, i - 1),
              right |-> SubSeq(s, i + 1, Len(s))]
    ELSE [ok |-> FALSE, left |-> <<>>, right |-> <<>>]

\* the number the decimal digits d stand for, U8Max + 1 once it exceeds U8Max
RECURSIVE DecimalValue(_)
DecimalValue(d) ==
    IF d = <<>> THEN 0
    ELSE LET v == 10 * DecimalValue(SubSeq(d, 1, Len(d) - 1)) + (d[Len(d)] - 48)
         IN  IF v > U8Max THEN U8Max + 1 ELSE v

\* str::parse::<u8>: an optional '+', then at least one digit, and a value
\* that fits a u8
ParseU8(s) ==
    LET d == IF Len(s) > 0 /\ s[1] = Plus THEN Tail(s) ELSE s IN
    IF d = <<>> \/ (\E i \in DOMAIN d : d[i] \notin Digits)
       \/ DecimalValue(d) > U8Max
    THEN [ok |-> FALSE, value |-> 0]
    ELSE [ok |-> TRUE, value |-> DecimalValue(d)]

\* a faulty u8::from(StatusCode) that forgets the subcode; C20 must not hold
\* of it
U8From_DropsSubcode(st) ==
    CASE st[1] = "Input"              -> 10
      [] st[1] = "Success"            -> 20
      [] st[1] = "Redirect"           -> 30
      [] st[1] = "TemporaryFailure"   -> 40
      [] st[1] = "PermanentFailure"   -> 50
      [] st[1] = "ClientCertRequired" -> 60
      [] OTHER                        -> st[2]

\* u8::from(StatusCode); the subcodes StatusCode::from makes are digits, so
\* the sums stay below 70
U8From(st) ==
    CASE st[1] = "Input"              -> 10 + st[2]
      [] st[1] = "Success"            -> 20 + st[2]
      [] st[1] = "Redirect"           -> 30 + st[2]
      [] st[1] = "TemporaryFailure"   -> 40 + st[2]
      [] st[1] = "PermanentFailure"   -> 50 + st[2]
      [] st[1] = "ClientCertRequired" -> 60 + st[2]
      [] OTHER                        -> st[2]

\* the longest META of a Gemini response
MetaMax == 1024

\* the positions of the b'\n's of bytes, counted from 0 as the code does
LfPositions(bytes) == { i - 1 : i \in { j \in DOMAIN bytes : bytes[j] = LF } }

Min(S) == CHOOSE x \in S : \A y \in S : x <= y
Max(S) == CHOOSE x \in S : \A y \in S : x >= y

\* a faulty search that lacks the break and so ends on the last b'\n';
\* C19 must not hold of it
FirstLf_NoBreak(bytes) ==
    IF LfPositions(bytes) = {} THEN 0 ELSE Max(LfPositions(bytes))

\* the loop of gemini Response::try_from that looks for the first b'\n':
\* first_lf stays 0 when there is none
FirstLf(bytes) ==
    IF LfPositions(bytes) = {} THEN 0 ELSE Min(LfPositions(bytes))

\* &raw[..i] and &raw[i..] of a slice
SliceTo(bytes, i) == SubSeq(bytes, 1, i)
SliceFrom(bytes, i) == SubSeq(bytes, i + 1, Len(bytes))

\* gemini::protocol::Response::try_from(&[u8])
GeminiResponseTryFrom(raw_response) ==
    IF raw_response = <<>> THEN Err(EmptyResponse)
    ELSE LET first_lf == FirstLf(raw_response) IN
    IF first_lf = 0 THEN Err(InvalidResponseHeader)
    ELSE LET response_header == SliceTo(raw_response, first_lf) IN
    IF ~Utf8Valid(response_header) THEN Err(InvalidResponseHeader)
    ELSE LET parts == SplitOnce(response_header) IN
    IF ~parts.ok THEN Err(InvalidResponseHeader)
    ELSE LET meta == Trim(parts.right) IN
    IF Len(meta) > MetaMax THEN Err(InvalidResponseHeader)
    ELSE LET status_code == ParseU8(parts.left) IN
    IF ~status_code.ok THEN Err(InvalidResponseHeader)
    ELSE Ok(Response(StatusCodeFrom(status_code.value), meta,
                     SliceFrom(raw_response, first_lf + 1)))

\* spartan::Status::try_from(u8)
SpartanStatusTryFrom(code) ==
    CASE code = 2 -> Ok("Success")
      [] code = 3 -> Ok("Redirect")
      [] code = 4 -> Ok("ClientError")
      [] code = 5 -> Ok("ServerError")
      [] OTHER    -> Err(InvalidResponseHeader)

\* spartan::Response::try_from(&Vec<u8>)
SpartanResponseTryFrom(raw_bytes) ==
    IF raw_bytes = <<>> THEN Err(EmptyResponse)
    ELSE IF LfPositions(raw_bytes) = {} THEN Err(InvalidResponseHeader)
    ELSE LET lf == Min(LfPositions(raw_bytes))
             header == SliceTo(raw_bytes, lf)
         IN
    IF ~Utf8Valid(header) THEN Err(InvalidResponseHeader)
    ELSE LET parts == SplitOnce(header) IN
    IF ~parts.ok THEN Err(InvalidResponseHeader)
    ELSE LET meta == Trim(parts.right)
             n    == ParseU8(parts.left)
         IN
    IF ~n.ok THEN Err(InvalidResponseHeader)
    ELSE LET status == SpartanStatusTryFrom(n.value) IN
    IF status.kind = "err" THEN status
    ELSE Ok(Response(status.response, meta, SliceFrom(raw_bytes, lf + 1)))

\* ------------------------------------------------ the parsers at work
\* length of the responses that are tried exhaustively
MaxLen == 5

\* the bytes of those responses: \n, \r, space, '+', '2', 'a' and a byte
\* that occurs in no UTF-8 text
Alphabet == {10, 13, 32, 43, 50, 97, 255}

ShortResponses == UNION { [1..k -> Alphabet] : k \in 0..MaxLen }

\* "20 text/gemini\r\n# Hello!" and its parts
HelloResponse ==
    <<50, 48, 32, 116, 101, 120, 116, 47, 103, 101, 109, 105, 110, 105,
      13, 10, 35, 32, 72, 101, 108, 108, 111, 33>>
HelloMeta == <<116, 101, 120, 116, 47, 103, 101, 109, 105, 110, 105>>
HelloBody == <<35, 32, 72, 101, 108, 108, 111, 33>>

\* k times the byte b
Repeat(b, k) == [i \in 1..k |-> b]

\* headers whose META is at, just below and just above the limit, bare or
\* wrapped in white space, with a status either parser accepts
LongResponses ==
    { status \o <<SP>> \o pad \o Repeat(97, k) \o pad \o <<13, LF>> \o body :
        status \in {<<50>>, <<50, 48>>},
        pad \in {<<>>, <<SP>>},
        k \in (MetaMax - 1)..(MetaMax + 1),
        body \in {<<>>, <<97>>} }

\* responses with characters of more than one byte: "2 é\n", "2 é" cut in
\* the middle of the character, and "2 a" wrapped in no-break spaces
WideResponses ==
    { <<50, 32, 195, 169, 10>>, <<50, 32, 195, 10>>,
      <<50, 32, 194, 160, 97, 194, 160, 10>> }

Responses == ShortResponses \cup {HelloResponse} \cup LongResponses \cup WideResponses

\* a driver has read raw from its stream
InitParser ==
    /\ InitSession
    /\ raw \in Responses
    /\ parsed = None

\* gemini::request: Response::try_from on the bytes read
ParseGemini ==
    /\ parsed = None
    /\ parsed' = Some([by |-> "gemini", result |-> GeminiResponseTryFrom(raw)])
    /\ UNCHANGED <<history, buffer, view, alive, loads, last, nloads, napi, raw>>

\* spartan::request: Response::try_from on the bytes read
ParseSpartan ==
    /\ parsed = None
    /\ parsed' = Some([by |-> "spartan", result |-> SpartanResponseTryFrom(raw)])
    /\ UNCHANGED <<history, buffer, view, alive, loads, last, nloads, napi, raw>>

NextParser ==
    \/ ParseGemini
    \/ ParseSpartan

SpecParser == InitParser /\ [][NextParser]_vars

\* ------------------------------------------------- status conversions
\* a status byte arrives
InitStatusCode ==
    /\ InitSession
    /\ raw \in { <<n>> : n \in 0..U8Max }
    /\ parsed = None

\* StatusCode::from(n), and u8::from of what it made
ConvertStatus ==
    /\ parsed = None
    /\ parsed' = Some([status |-> StatusCodeFrom(raw[1]),
                       byte   |-> U8From(StatusCodeFrom(raw[1]))])
    /\ UNCHANGED <<history, buffer, view, alive, loads, last, nloads, napi, raw>>

NextStatusCode == ConvertStatus

SpecStatusCode == InitStatusCode /\ [][NextStatusCode]_vars

\* ------------------------------------------------------------- gemtext
\* A text (&str) is the sequence of its characters, each character being a
\* string of length one; the grave accent, which a TLA+ string cannot hold,
\* is the string "tick".
Backtick == "tick"

\* char::is_whitespace, on the characters of the model
IsWhitespace(c) == c \in {" ", "\t", "\n", "\r"}

\* str::split(sep): the pieces between the separators
RECURSIVE Split(_, _)
Split(s, sep) ==
    IF \E i \in DOMAIN s : s[i] = sep
    THEN LET i == CHOOSE i \in DOMAIN s :
                     s[i] = sep /\ \A j \in 1..(i - 1) : s[j] # sep
         IN  <<SubSeq(s, 1, i - 1)>> \o Split(SubSeq(s, i + 1, Len(s)), sep)
    ELSE <<s>>

\* str::lines: the pieces that end at a "\n" or at the end of the text, each
\* without its line ending ("\n" or "\r\n"); no line after a final "\n"
Lines(text) ==
    LET pieces == Split(text, "\n")
        kept   == IF pieces[Len(pieces)] = <<>>
                  THEN SubSeq(pieces, 1, Len(pieces) - 1) ELSE pieces
        strip(l) == IF Len(l) > 0 /\ l[Len(l)] = "\r"
                    THEN SubSeq(l, 1, Len(l) - 1) ELSE l
    IN  [i \in DOMAIN kept |-> strip(kept[i])]

\* str::trim(..).is_empty()
IsBlank(line) == \A i \in DOMAIN line : IsWhitespace(line[i])

\* GemtextNode: the variant, its string and its optional second string
Node(type, s, d) == [type |-> type, s |-> s, d |-> d]
EmptyLine == Node("EmptyLine", <<>>, None)

\* the locals of the character loop of parse_gemtext: current_parse_state,
\* temp1, temp2 and preformatted_text_type
Scan(state, temp1, temp2, type) ==
    [state |-> state, temp1 |-> temp1, temp2 |-> temp2, type |-> type]

\* one pass of `match current_parse_state` for the character c
ParseChar(st, c) ==
    LET to(state) == [st EXCEPT !.state = state]
        push1     == [st EXCEPT !.temp1 = Append(@, c)]
    IN  CASE st.state = "Searching" ->
               CASE c = "=" -> to("FirstLinkChar")
                 [] c = "*" -> to("ListWaitForSpace")
                 [] c = Backtick -> to("FirstTick")
                 [] c = "#" -> to("HeadingStart")
                 [] c = ">" -> to("BlockquoteStart")
                 [] OTHER   -> to("Text")
          [] st.state = "FirstLinkChar" ->
               CASE c = ">" -> to("SecondLinkChar")
                 [] c = ":" -> to("SecondPromptChar")
                 [] OTHER   -> to("Text")
          [] st.state = "SecondLinkChar" ->
               IF ~IsWhitespace(c)
               THEN [st EXCEPT !.state = "LinkLink", !.temp1 = Append(@, c)]
               ELSE st
          [] st.state = "SecondPromptChar" ->
               IF ~IsWhitespace(c)
               THEN [st EXCEPT !.state = "PromptLink", !.temp1 = Append(@, c)]
               ELSE st
          [] st.state = "LinkLink" ->
               IF IsWhitespace(c) THEN to("LinkDesc") ELSE push1
          [] st.state = "PromptLink" ->
               IF IsWhitespace(c) THEN to("PromptDesc") ELSE push1
          [] st.state \in {"LinkDesc", "PromptDesc"} ->
               [st EXCEPT !.temp2 = Append(@, c)]
          [] st.state = "ListWaitForSpace" ->
               IF IsWhitespace(c) THEN to("ListItem") ELSE to("Text")
          [] st.state \in {"ListItem", "Heading", "SubHeading", "Blockquote",
                           "SubSubHeading"} -> push1
          [] st.state = "FirstTick" ->
               IF c = Backtick THEN to("SecondTick") ELSE to("Text")
          [] st.state = "SecondTick" ->
               IF c = Backtick
               THEN [st EXCEPT !.state = "PreformattedTextType", !.type = <<>>]
               ELSE to("Text")
          [] st.state = "PreformattedTextType" ->
               [st EXCEPT !.type = Append(@, c)]
          [] st.state = "HeadingStart" ->
               IF c = "#" THEN to("SubHeadingStart")
               ELSE IF ~IsWhitespace(c) THEN to("Text")
               ELSE to("Heading")
          [] st.state = "SubHeadingStart" ->
               IF c = "#" THEN to("SubSubHeadingStart")
               ELSE IF ~IsWhitespace(c) THEN to("Text")
               ELSE to("SubHeading")
          [] st.state = "SubSubHeadingStart" ->
               IF c = "#" THEN to("SubSubHeading")
               ELSE IF ~IsWhitespace(c) THEN to("Text")
               ELSE to("SubSubHeading")
          [] st.state = "BlockquoteStart" ->
               IF IsWhitespace(c) THEN to("Blockquote") ELSE to("Text")
          [] OTHER -> st

\* `for c in line.chars()` from character i on; the Text state breaks the loop
RECURSIVE ParseChars(_, _, _)
ParseChars(line, i, st) ==
    IF i > Len(line) \/ st.state = "Text" THEN st
    ELSE ParseChars(line, i + 1, ParseChar(st, line[i]))

\* the locals of the line loop of parse_gemtext; panicked once the clean-up
\* match has met a state it has no arm for
Doc(pre, has_type, nodes, text, type, panicked) ==
    [is_in_preformatted |-> pre, preformatted_text_has_type |-> has_type,
     nodes |-> nodes, preformatted_text |-> text,
     preformatted_text_type |-> type, panicked |-> panicked]

\* the clean-up match at the end of a line
CleanUp(doc, line, st) ==
    LET push(n) == [doc EXCEPT !.nodes = Append(@, n),
                               !.preformatted_text_type = st.type]
        text(s) == push(Node("Text", s, None))
    IN  CASE st.state = "Text" -> text(line)
          [] st.state \in {"SecondLinkChar", "SecondPromptChar"} -> text(<<"=">>)
          [] st.state \in {"LinkLink", "PromptLink"} ->
               push(Node("Link", st.temp1, None))
          [] st.state = "LinkDesc" ->
               IF st.temp2 = <<>> THEN push(Node("Link", st.temp1, None))
               ELSE push(Node("Link", st.temp1, Some(st.temp2)))
          [] st.state = "PromptDesc" ->
               IF st.temp2 = <<>> THEN push(Node("Prompt", st.temp1, None))
               ELSE push(Node("Prompt", st.temp1, Some(st.temp2)))
          [] st.state = "ListItem" -> push(Node("ListItem", st.temp1, None))
          [] st.state = "FirstTick" -> text(<<Backtick>>)
          [] st.state = "SecondTick" -> text(<<Backtick, Backtick>>)
          [] st.state = "PreformattedTextType" ->
               [doc EXCEPT !.is_in_preformatted = TRUE,
                           !.preformatted_text_has_type = (st.type # <<>>),
                           !.preformatted_text_type = st.type]
          [] st.state = "Heading" -> push(Node("Heading", st.temp1, None))
          [] st.state = "HeadingStart" -> text(<<"#">>)
          [] st.state = "SubHeading" -> push(Node("SubHeading", st.temp1, None))
          [] st.state = "SubHeadingStart" -> text(<<"#", "#">>)
          [] st.state = "SubSubHeading" ->
               push(Node("SubSubHeading", st.temp1, None))
          [] st.state = "SubSubHeadingStart" -> text(<<"#", "#", "#">>)
          [] st.state = "Blockquote" -> push(Node("Blockquote", st.temp1, None))
          [] st.state = "BlockquoteStart" -> push(Node("Blockquote", <<>>, None))
          [] OTHER -> [doc EXCEPT !.panicked = TRUE]

\* a faulty line loop that forgets the push('\n') after a preformatted line;
\* C25 must not hold of it
ParseLine_NoNewline(doc, line) ==
    IF doc.is_in_preformatted
    THEN IF Len(line) >= 3 /\ SubSeq(line, 1, 3) = <<Backtick, Backtick, Backtick>>
         THEN [doc EXCEPT
                 !.nodes = Append(@, Node("Preformatted", doc.preformatted_text,
                                          IF doc.preformatted_text_has_type
                                          THEN Some(doc.preformatted_text_type)
                                          ELSE None)),
                 !.is_in_preformatted = FALSE,
                 !.preformatted_text = <<>>]
         ELSE [doc EXCEPT !.preformatted_text = @ \o line]
    ELSE IF IsBlank(line)
    THEN [doc EXCEPT !.nodes = Append(@, EmptyLine)]
    ELSE CleanUp(doc, line,
                 ParseChars(line, 1, Scan("Searching", <<>>, <<>>,
                                          doc.preformatted_text_type)))

\* the body of `for line in text.lines()`
ParseLine(doc, line) ==
    IF doc.is_in_preformatted
    THEN IF Len(line) >= 3 /\ SubSeq(line, 1, 3) = <<Backtick, Backtick, Backtick>>
         THEN [doc EXCEPT
                 !.nodes = Append(@, Node("Preformatted", doc.preformatted_text,
                                          IF doc.preformatted_text_has_type
                                          THEN Some(doc.preformatted_text_type)
                                          ELSE None)),
                 !.is_in_preformatted = FALSE,
                 !.preformatted_text = <<>>]
         ELSE [doc EXCEPT !.preformatted_text = @ \o line \o <<"\n">>]
    ELSE IF IsBlank(line)
    THEN [doc EXCEPT !.nodes = Append(@, EmptyLine)]
    ELSE CleanUp(doc, line,
                 ParseChars(line, 1, Scan("Searching", <<>>, <<>>,
                                          doc.preformatted_text_type)))

\* the line loop from line i on; a panic ends it
RECURSIVE ParseLines(_, _, _)
ParseLines(lines, i, doc) ==
    IF i > Len(lines) \/ doc.panicked THEN doc
    ELSE ParseLines(lines, i + 1, ParseLine(doc, lines[i]))

\* what a call of a parser comes to: the nodes it returns, or a panic
Returned(nodes) == [kind |-> "ok", nodes |-> nodes]
Panicked == [kind |-> "panic", nodes |-> <<>>]

\* parser::parse_gemtext
ParseGemtext(text) ==
    LET doc == ParseLines(Lines(text), 1,
                          Doc(FALSE, FALSE, <<>>, <<>>, <<>>, FALSE))
    IN  IF doc.panicked THEN Panicked ELSE Returned(doc.nodes)

\* Display for GemtextNode
Display(node) ==
    LET t == Backtick
        fence == <<t, t, t>>
    IN  CASE node.type = "EmptyLine" -> <<>>
          [] node.type = "Text" -> node.s
          [] node.type = "Link" ->
               IF IsSome(node.d) THEN <<"=", ">", " ">> \o node.s \o <<" ">> \o node.d[1]
               ELSE <<"=", ">", " ">> \o node.s
          [] node.type = "Prompt" ->
               IF IsSome(node.d) THEN <<"=", ":", " ">> \o node.s \o <<" ">> \o node.d[1]
               ELSE <<"=", ":", " ">> \o node.s
          [] node.type = "Heading" -> <<"#", " ">> \o node.s
          [] node.type = "SubHeading" -> <<"#", "#", " ">> \o node.s
          [] node.type = "SubSubHeading" -> <<"#", "#", "#", " ">> \o node.s
          [] node.type = "ListItem" -> <<"*", " ">> \o node.s
          [] node.type = "Blockquote" -> <<">", " ">> \o node.s
          [] OTHER ->
               IF IsSome(node.d)
               THEN fence \o node.d[1] \o <<"\n">> \o node.s \o <<"\n">> \o fence
               ELSE fence \o <<"\n">> \o node.s \o <<"\n">> \o fence

\* ------------------------------------------------ parse_gemtext at work
\* length of the texts that are tried exhaustively
MaxText == 4
\* number of lines of the texts that are made of whole lines
MaxLines == 3

\* the characters of the short texts
GemtextAlphabet == {"=", ">", ":", "*", Backtick, "#", " ", "a", "\n"}

ShortTexts == UNION { [1..k -> GemtextAlphabet] : k \in 0..MaxText }

\* lines of every kind: quotes, fences with and without alt text, links and
\* prompts with and without display text, headings, a list item, plain
\* text and the empty line
FenceLine == <<Backtick, Backtick, Backtick>>
SampleLines ==
    { <<">", " ", "a">>, <<">", " ", "b">>, <<"a", " ", "b">>, <<>>,
      FenceLine, FenceLine \o <<"r", "s">>,
      <<"=", ">", " ", "u", " ", "d">>, <<"=", ":", " ", "u">>,
      <<"=", ":", " ", "u", " ", "d">>,
      <<"#", " ", "a">>, <<"#", "#", "#", "#", " ", "a">>,
      <<"*", " ", "a">> }

\* the lines joined, a "\n" after each but the last
RECURSIVE Join(_)
Join(lines) ==
    IF Len(lines) = 0 THEN <<>>
    ELSE IF Len(lines) = 1 THEN lines[1]
    ELSE lines[1] \o <<"\n">> \o Join(Tail(lines))

LineTexts ==
    { Join(ls) : ls \in UNION { [1..k -> SampleLines] : k \in 1..MaxLines } }

Texts == ShortTexts \cup LineTexts

\* a gemtext document has arrived
InitGemtext ==
    /\ InitSession
    /\ raw \in Texts
    /\ parsed = None

\* parse_gemtext(raw)
CallParseGemtext ==
    /\ parsed = None
    /\ parsed' = Some([text |-> raw, result |-> ParseGemtext(raw)])
    /\ UNCHANGED <<history, buffer, view, alive, loads, last, nloads, napi, raw>>

NextGemtext == CallParseGemtext

SpecGemtext == InitGemtext /\ [][NextGemtext]_vars

\* ------------------------------------------------- Display at work
\* the strings of the nodes: words, urls, the bodies of preformatted blocks
\* and their alt texts
NodeStrings == { <<"a">>, <<"b">>, <<"a", "b">>, <<"a", " ", "b">>, <<"b", " ", "a">> }
NodeUrls == { <<"u">>, <<"v">> }
NodeBodies == { <<"a">>, <<"b">>, <<"a", " ", "b">>, <<"a", "\n", "b">> }
NodeAlts == { None, Some(<<"r", "s">>), Some(<<"r", " ", "s">>) }

\* nodes of every variant
GemtextNodes ==
    { Node(t, x, None) :
        t \in {"Text", "Heading", "SubHeading", "SubSubHeading", "ListItem",
               "Blockquote"},
        x \in NodeStrings }
    \cup { Node(t, u, d) :
             t \in {"Link", "Prompt"}, u \in NodeUrls,
             d \in {None} \cup { Some(x) : x \in NodeStrings } }
    \cup { Node("Preformatted", b, a) : b \in NodeBodies, a \in NodeAlts }
    \cup { EmptyLine }

\* a node is to be written out
InitDisplay ==
    /\ InitSession
    /\ raw \in GemtextNodes
    /\ parsed = None

\* node.to_string(), and parse_gemtext of the string
FormatAndParse ==
    /\ parsed = None
    /\ parsed' = Some([text |-> Display(raw), result |-> ParseGemtext(Display(raw))])
    /\ UNCHANGED <<history, buffer, view, alive, loads, last, nloads, napi, raw>>

NextDisplay == FormatAndParse

SpecDisplay == InitDisplay /\ [][NextDisplay]_vars

\* ---------------------------------------------------------- gopher maps
\* the characters a line of a Gopher map may start with
ItemTypes ==
    {"0", "1", "2", "3", "4", "5", "6", "7", "8", "9", "+", "g", "I", "T",
     ":", ";", "<", "d", "h", "i", "s"}

\* the loop of is_map from line i on: true at the "." line or at the end,
\* false at a line that starts with no item type
RECURSIVE IsMapFrom(_, _)
IsMapFrom(lines, i) ==
    IF i > Len(lines) THEN TRUE
    ELSE IF lines[i] = <<".">> THEN TRUE
    ELSE IF Len(lines[i]) = 0 \/ lines[i][1] \notin ItemTypes THEN FALSE
    ELSE IsMapFrom(lines, i + 1)

\* a faulty check that lacks the break at the "." line and so looks at
\* every line; C27 must not hold of it
GopherIsMap_NoBreak(content) ==
    IF StartsWithText(content.mime)
    THEN LET lines == Lines(content.bytes) IN
         \A i \in DOMAIN lines :
             lines[i] = <<".">> \/ (Len(lines[i]) > 0 /\ lines[i][1] \in ItemTypes)
    ELSE FALSE

\* GopherMap::is_map for Content; bytes is the text String::from_utf8_lossy
\* makes of the bytes
GopherIsMap(content) ==
    IF StartsWithText(content.mime) THEN IsMapFrom(Lines(content.bytes), 1)
    ELSE FALSE

\* LineType: the variant and the fields of its Link or ExternLink, the text
\* of a Text held in display
LineType(type, display, path, host, port, url) ==
    [type |-> type, display |-> display, path |-> path, host |-> host,
     port |-> port, url |-> url]

\* the outcome of parsing one line: no node, a node, or a panic
NoLine == [kind |-> "none", line |-> None]
SomeLine(l) == [kind |-> "some", line |-> Some(l)]
LinePanic == [kind |-> "panic", line |-> None]

\* Link::from_line; split_off(1) panics on an empty first field
LinkFromLine(line, type) ==
    LET els == Split(line, "\t") IN
    IF Len(els[1]) < 1 THEN LinePanic
    ELSE IF Len(els) < 4 THEN NoLine
    ELSE SomeLine(LineType(type, Tail(els[1]), els[2], els[3], els[4], <<>>))

\* str::starts_with("URL:")
StartsWithUrl(t) == Len(t) >= 4 /\ SubSeq(t, 1, 4) = <<"U", "R", "L", ":">>

\* LineType::parse_line
GopherParseLine(line) ==
    IF line = <<".">> THEN NoLine
    ELSE IF Len(line) > 0 /\ line[1] = "i"
    THEN SomeLine(LineType("Text", Tail(Split(line, "\t")[1]), <<>>, <<>>, <<>>, <<>>))
    ELSE IF Len(line) > 0 /\ line[1] = "7"
    THEN LinkFromLine(line, "Query")
    ELSE IF Len(line) > 0 /\ line[1] = "h"
    THEN LET els == Split(line, "\t") IN
         IF Len(els) > 1 /\ StartsWithUrl(els[2])
         THEN SomeLine(LineType("Http", Tail(els[1]), <<>>, <<>>, <<>>,
                                SubSeq(els[2], 5, Len(els[2]))))
         ELSE LinkFromLine(line, "Link")
    ELSE LinkFromLine(line, "Link")

\* the loop of GopherMap::parse from line i on
RECURSIVE GopherParseFrom(_, _, _)
GopherParseFrom(lines, i, ret) ==
    IF i > Len(lines) THEN Returned(ret)
    ELSE LET l == GopherParseLine(lines[i]) IN
         CASE l.kind = "panic" -> Panicked
           [] l.kind = "some"  -> GopherParseFrom(lines, i + 1, Append(ret, l.line[1]))
           [] OTHER            -> GopherParseFrom(lines, i + 1, ret)

\* GopherMap::parse for Content
GopherParse(content) == GopherParseFrom(Lines(content.bytes), 1, <<>>)

\* the characters of the short Gopher documents
GopherAlphabet == {"i", "1", ".", "\t", "\n", "a"}

ShortMaps == UNION { [1..k -> GopherAlphabet] : k \in 0..MaxText }

\* lines of every kind: info lines with one and with four fields, links with
\* three and with four fields, a query, an HTTP link with two fields, an "h"
\* link to a Gopher host, the terminator, an empty line, a line of plain text
MapLines ==
    { <<"i", "A">>, <<"i", "B", "\t", "\t", "\t">>,
      <<"1", "a", "\t", "p", "\t", "h", "\t", "7">>,
      <<"1", "a", "\t", "p", "\t", "h">>,
      <<"7", "q", "\t", "p", "\t", "h", "\t", "7">>,
      <<"h", "w", "\t", "U", "R", "L", ":", "x">>,
      <<"h", "w", "\t", "p", "\t", "h", "\t", "7">>,
      <<".">>, <<>>, <<"x", "a">> }

LineMaps ==
    { Join(ls) : ls \in UNION { [1..k -> MapLines] : k \in 1..MaxLines } }

\* the documents a Gopher server may answer with
GopherContents ==
    [mime : {"text/plain", "image/png"}, bytes : ShortMaps \cup LineMaps]

\* a Gopher response has arrived
InitGopher ==
    /\ InitSession
    /\ raw \in GopherContents
    /\ parsed = None

\* content.is_map()
CallIsMap ==
    /\ parsed = None
    /\ parsed' = Some([call |-> "is_map", map |-> GopherIsMap(raw)])
    /\ UNCHANGED <<history, buffer, view, alive, loads, last, nloads, napi, raw>>

\* content.parse()
CallParse ==
    /\ parsed = None
    /\ parsed' = Some([call |-> "parse", result |-> GopherParse(raw)])
    /\ UNCHANGED <<history, buffer, view, alive, loads, last, nloads, napi, raw>>

NextGopher == CallIsMap \/ CallParse

SpecGopher == InitGopher /\ [][NextGopher]_vars

\* ----------------------------------------------------------- data urls
\* the value of a symbol of the URL-safe alphabet (A-Z, a-z, 0-9, "-", "_"),
\* -1 for every other byte
UrlSafeSymbol(c) ==
    CASE c \in 65..90  -> c - 65
      [] c \in 97..122 -> c - 71
      [] c \in 48..57  -> c + 4
      [] c = 45        -> 62
      [] c = 95        -> 63
      [] OTHER         -> -1

\* the outcome of a decoding: the bytes, or an error
Decoded(bytes) == [ok |-> TRUE, bytes |-> bytes]
DecodeError == [ok |-> FALSE, bytes |-> <<>>]

\* Engine::decode of an engine with padding, symbol being the table of the
\* alphabet: the length is a multiple of
\* four, one or two "=" may end the last group, every other byte is a
\* symbol of the alphabet, and the bits of the last symbol that belong to no
\* byte are zero
Base64Decode(symbol, data) ==
    LET n    == Len(data)
        pads == Cardinality({ i \in DOMAIN data :
                                \A j \in i..n : data[j] = 61 })
        m    == n - pads
        v(i) == symbol[data[i]]
        byte(j) ==
            LET k == 4 * ((j - 1) \div 3)
                r == (j - 1) % 3
            IN  CASE r = 0 -> v(k + 1) * 4 + v(k + 2) \div 16
                  [] r = 1 -> (v(k + 2) % 16) * 16 + v(k + 3) \div 4
                  [] OTHER -> (v(k + 3) % 4) * 64 + v(k + 4)
    IN  IF n % 4 # 0 \/ pads > 2 THEN DecodeError
        ELSE IF \E i \in 1..m : v(i) = -1 THEN DecodeError
        ELSE IF pads = 1 /\ v(m) % 4 # 0 THEN DecodeError
        ELSE IF pads = 2 /\ v(m) % 16 # 0 THEN DecodeError
        ELSE Decoded([j \in 1..((3 * m) \div 4) |-> byte(j)])

\* general_purpose::URL_SAFE.decode
UrlSafeDecode(data) ==
    Base64Decode([c \in 0..U8Max |-> UrlSafeSymbol(c)], data)

\* the value of a hexadecimal digit, -1 for every other byte
FromHexDigit(c) ==
    CASE c \in 48..57  -> c - 48
      [] c \in 65..70  -> c - 55
      [] c \in 97..102 -> c - 87
      [] OTHER         -> -1

\* urlencoding::decode_binary from byte i on: "%" and two hexadecimal
\* digits become one byte, every other byte is kept
RECURSIVE DecodeBinary(_, _)
DecodeBinary(data, i) ==
    IF i > Len(data) THEN <<>>
    ELSE IF /\ data[i] = 37
            /\ i + 2 <= Len(data)
            /\ FromHexDigit(data[i + 1]) # -1
            /\ FromHexDigit(data[i + 2]) # -1
    THEN <<FromHexDigit(data[i + 1]) * 16 + FromHexDigit(data[i + 2])>>
             \o DecodeBinary(data, i + 3)
    ELSE <<data[i]>> \o DecodeBinary(data, i + 1)

\* urlencoding::decode: the decoded bytes when they are UTF-8
UrlDecode(data) ==
    LET bytes == DecodeBinary(data, 1) IN
    IF Utf8Valid(bytes) THEN Decoded(bytes) ELSE DecodeError

\* the MimeType variants
TextMimeTypes  == {"TextPlain", "TextGemini"}
ImageMimeTypes == {"ImageJpeg", "ImagePng", "ImageSvg", "ImageOther"}
MimeTypes == TextMimeTypes \cup ImageMimeTypes \cup {"Unknown"}

\* Data::Text, Data::Bytes, and the error of decode
TextData(bytes)  == [kind |-> "Text", bytes |-> bytes]
BytesData(bytes) == [kind |-> "Bytes", bytes |-> bytes]
DataErr == [kind |-> "Err", bytes |-> <<>>]

\* DataUrl::decode
DataUrlDecode(self) ==
    CASE self.mime \in TextMimeTypes ->
            IF self.base64
            THEN LET tmp == UrlSafeDecode(self.data) IN
                 IF tmp.ok /\ Utf8Valid(tmp.bytes) THEN TextData(tmp.bytes)
                 ELSE DataErr
            ELSE LET pl == UrlDecode(self.data) IN
                 IF pl.ok THEN TextData(pl.bytes) ELSE DataErr
      [] self.mime \in ImageMimeTypes ->
            IF self.base64
            THEN LET pl == UrlSafeDecode(self.data) IN
                 IF pl.ok THEN BytesData(pl.bytes) ELSE DataErr
            ELSE BytesData(self.data)
      [] OTHER -> DataErr

\* "R05VIGlzIG5vdCBVbml4Cg==", "GNU%20is%20not%20Unix" and "GNU is not Unix"
B64_URL ==
    <<82, 48, 53, 86, 73, 71, 108, 122, 73, 71, 53, 118, 100, 67, 66,
      86, 98, 109, 108, 52, 67, 103, 61, 61>>
PERCENT_URL ==
    <<71, 78, 85, 37, 50, 48, 105, 115, 37, 50, 48, 110, 111, 116,
      37, 50, 48, 85, 110, 105, 120>>
GnuIsNotUnix ==
    <<71, 78, 85, 32, 105, 115, 32, 110, 111, 116, 32, 85, 110, 105,
      120>>

\* the bytes of the short payloads: "%", "+", "-", "2", "=", "A"
PayloadAlphabet == {37, 43, 45, 50, 61, 65}

\* the payloads of the tests, and "AA/A", "AA_A"
SamplePayloads ==
    {B64_URL, PERCENT_URL, <<65, 65, 47, 65>>, <<65, 65, 95, 65>>}

Payloads ==
    UNION { [1..k -> PayloadAlphabet] : k \in 0..MaxText } \cup SamplePayloads

\* the values DataUrl::try_from makes
DataUrls == [mime : MimeTypes, base64 : BOOLEAN, data : Payloads]

\* a data url has been parsed
InitDataUrl ==
    /\ InitSession
    /\ raw \in DataUrls
    /\ parsed = None

\* self.decode()
CallDecode ==
    /\ parsed = None
    /\ parsed' = Some([call |-> "decode", result |-> DataUrlDecode(raw)])
    /\ UNCHANGED <<history, buffer, view, alive, loads, last, nloads, napi, raw>>

NextDataUrl == CallDecode

SpecDataUrl == InitDataUrl /\ [][NextDataUrl]_vars

\* ------------------------------------------------- spartan request bytes
\* what a driver has done with the stream: written bytes, or returned an
\* error before writing
Wrote(bytes) == [kind |-> "wrote", bytes |-> bytes]
NotWritten == [kind |-> "err", bytes |-> <<>>]

\* the decimal digits format! writes for a usize
RECURSIVE FormatUsize(_)
FormatUsize(n) ==
    IF n < 10 THEN <<48 + n>>
    ELSE FormatUsize(n \div 10) \o <<48 + (n % 10)>>

\* spartan::request: the bytes of write_all for a GET, "/" for an empty
\* path, the query after "?", the whole percent-decoded
RequestBytes(url) ==
    LET path  == IF url.path = <<>> THEN <<47>> ELSE url.path
        query == IF url.query = None THEN <<>> ELSE <<63>> \o url.query[1]
        dec   == UrlDecode(path \o query)
    IN  IF dec.ok
        THEN Wrote(url.host \o <<SP>> \o dec.bytes \o <<SP, 48, 13, LF>>)
        ELSE NotWritten

\* spartan::post: the bytes of write_all for an upload, the header
\* "host path len" and the data right after it
PostBytes(url, data) ==
    LET dec == UrlDecode(url.path) IN
    IF dec.ok
    THEN Wrote(url.host \o <<SP>> \o dec.bytes \o <<SP>>
                   \o FormatUsize(Len(data)) \o data)
    ELSE NotWritten

\* the bytes of the uploads: "\n", "\r", "1", "a"
UploadAlphabet == {10, 13, 49, 97}

\* the uploads: the short ones, and ten and twelve times "a"
Uploads ==
    UNION { [1..k -> UploadAlphabet] : k \in 0..MaxText }
        \cup {Repeat(97, 10), Repeat(97, 12)}

\* the urls: host "h", the paths "", "/", "/a", "/%61", "/%A2", with and
\* without the query "q"
SpartanUrls ==
    [host : {<<104>>},
     path : {<<>>, <<47>>, <<47, 97>>, <<47, 37, 54, 49>>, <<47, 37, 65, 50>>},
     query : {None, Some(<<113>>)}]

\* the connection to a Spartan server is open
InitSpartanWire ==
    /\ InitSession
    /\ raw \in [url : SpartanUrls, data : Uploads]
    /\ parsed = None

\* spartan::request(url)
CallRequest ==
    /\ parsed = None
    /\ parsed' = Some([call |-> "request", result |-> RequestBytes(raw.url)])
    /\ UNCHANGED <<history, buffer, view, alive, loads, last, nloads, napi, raw>>

\* spartan::post(url, data)
CallPost ==
    /\ parsed = None
    /\ parsed' = Some([call |-> "post", result |-> PostBytes(raw.url, raw.data)])
    /\ UNCHANGED <<history, buffer, view, alive, loads, last, nloads, napi, raw>>

NextSpartanWire == CallRequest \/ CallPost

SpecSpartanWire == InitSpartanWire /\ [][NextSpartanWire]_vars

\* ====================================================================
\* Properties
\* ====================================================================
\* the uris the history operations are tried with at every reachable state
ClaimUris ==
    { AboutBlank, Uri("gemini", PathA), Uri("gemini", PathB),
      Uri("spartan", PathB) }

\* the two gemini pages of the model
GeminiA == Uri("gemini", PathA)
GeminiB == Uri("gemini", PathB)

\* C1: append(uri) with uri different from the current uri pushes the
\* previous current uri onto the top of back, makes uri current and empties
\* forward; the entries already in back stay where they were, in order.
C1_AppendPushesCurrent ==
    \A uri \in ClaimUris :
        uri # history.uri =>
            LET h2 == AppendHistoryTo(history, uri) IN
            /\ h2.uri = uri
            /\ h2.forward = <<>>
            /\ Len(h2.back) = Len(history.back) + 1
            /\ h2.back[Len(h2.back)] = history.uri
            /\ \A i \in 1..Len(history.back) : h2.back[i] = history.back[i]

\* append(a) and append(b) have acted on the initial history
C1_Witness ==
    /\ napi = 2
    /\ history = [uri |-> GeminiB, back |-> <<AboutBlank, GeminiA>>, forward |-> <<>>]

\* C2: in every reachable history state, append of the uri that is already
\* current changes neither current nor back nor forward.
C2_AppendCurrentIsNoOp ==
    AppendHistoryTo(history, history.uri) = history

\* append(a) was called twice in a row: the second call changed nothing
C2_Witness ==
    /\ napi = 2
    /\ nloads = 0
    /\ history = [uri |-> GeminiA, back |-> <<AboutBlank>>, forward |-> <<>>]

\* C3: previous() with a non-empty back removes the top of back, pushes the
\* old current uri onto forward, makes the removed entry current and returns
\* it; with an empty back it returns nothing and changes nothing.  next() is
\* the same with back and forward exchanged.
C3_PreviousAndNext ==
    LET p  == HistoryPrevious(history)
        n  == HistoryNext(history)
        nb == Len(history.back)
        nf == Len(history.forward)
    IN  /\ nb > 0 =>
              /\ p.ret = <<history.back[nb]>>
              /\ p.hist.uri = history.back[nb]
              /\ p.hist.back = SubSeq(history.back, 1, nb - 1)
              /\ p.hist.forward = history.forward \o <<history.uri>>
        /\ nb = 0 => p.ret = <<>> /\ p.hist = history
        /\ nf > 0 =>
              /\ n.ret = <<history.forward[nf]>>
              /\ n.hist.uri = history.forward[nf]
              /\ n.hist.forward = SubSeq(history.forward, 1, nf - 1)
              /\ n.hist.back = history.back \o <<history.uri>>
        /\ nf = 0 => n.ret = <<>> /\ n.hist = history

\* go_previous() has called previous() on a history with two back entries and
\* go_next() has then called next(): the second load is the one of go_next()
C3_Witness ==
    /\ nloads = 2
    /\ Len(loads) = 1
    /\ loads[1].op = "go_next"
    /\ loads[1].before.history =
           [uri |-> GeminiA, back |-> <<AboutBlank>>, forward |-> <<GeminiB>>]
    /\ history = [uri |-> GeminiB, back |-> <<AboutBlank, GeminiA>>, forward |-> <<>>]

\* C4: whenever back is non-empty, previous() followed by next() restores
\* current, back and forward exactly, and next() returns the uri that was
\* current before previous().  After append(a), append(b) on the initial
\* history, previous() returns a and leaves forward = <<b>>, and next() then
\* returns b.
C4_PreviousThenNext ==
    LET p == HistoryPrevious(history)
        n == HistoryNext(p.hist)
    IN  /\ Len(history.back) > 0 =>
              /\ n.hist = history
              /\ n.ret = <<history.uri>>
        /\ history = [uri |-> GeminiB, back |-> <<AboutBlank, GeminiA>>, forward |-> <<>>] =>
              /\ p.ret = <<GeminiA>>
              /\ p.hist.forward = <<GeminiB>>
              /\ n.ret = <<GeminiB>>

\* append(a), append(b), go_previous() (whose load of a is in flight), and
\* the history is the one previous() left
C4_Witness ==
    /\ napi = 2
    /\ nloads = 1
    /\ Len(loads) = 1
    /\ loads[1].op = "go_previous"
    /\ loads[1].before.history =
           [uri |-> GeminiB, back |-> <<AboutBlank, GeminiA>>, forward |-> <<>>]
    /\ history = [uri |-> GeminiA, back |-> <<AboutBlank>>, forward |-> <<GeminiB>>]

\* ------------------------------------------------------- C5 .. C10
SpartanA == Uri("spartan", PathA)
SpartanB == Uri("spartan", PathB)

\* the load record has emitted the signal
HasEvent(rec, name) == \E i \in DOMAIN rec.events : rec.events[i].name = name

\* h2 is what History append / previous / next makes of h
ByAppend(h, h2) ==
    h2 = [uri |-> h2.uri, back |-> h.back \o <<h.uri>>, forward |-> <<>>]

ByPrevious(h, h2) ==
    /\ Len(h.back) > 0
    /\ h2 = [uri     |-> h.back[Len(h.back)],
             back    |-> SubSeq(h.back, 1, Len(h.back) - 1),
             forward |-> h.forward \o <<h.uri>>]

ByNext(h, h2) ==
    /\ Len(h.forward) > 0
    /\ h2 = [uri     |-> h.forward[Len(h.forward)],
             back    |-> h.back \o <<h.uri>>,
             forward |-> SubSeq(h.forward, 1, Len(h.forward) - 1)]

\* C5 as claimed: the current uri is changed only by append, previous and
\* next, so every step that changes it updates back and forward the way one
\* of the three does.  set_uri breaks it.
C5_OnlyHistoryOperations ==
    [][history'.uri # history.uri =>
          \/ ByAppend(history, history')
          \/ ByPrevious(history, history')
          \/ ByNext(history, history')]_vars

\* the uri a prompt link resolves to when it is activated
PromptTarget(link, current) ==
    IF link.scheme = "spartan" THEN link ELSE Uri(current.scheme, link.path)

\* C5 (amended): the current uri is changed by append, previous and next,
\* each with its back/forward update, and otherwise only by set_uri, called
\* by the embedding application or by the activation of a Spartan prompt
\* link, which overwrites the current uri and leaves back, forward and the
\* buffer as they are.
C5_HistoryOperationsOrSetUri ==
    [][history'.uri # history.uri =>
          \/ ByAppend(history, history')
          \/ ByPrevious(history, history')
          \/ ByNext(history, history')
          \/ /\ history'.back = history.back
             /\ history'.forward = history.forward
             /\ buffer' = buffer
             /\ nloads' = nloads
             /\ \/ napi' = napi + 1 /\ history'.uri \in SetUris
                \/ /\ napi' = napi
                   /\ \E link \in view :
                         history'.uri = PromptTarget(link, history.uri)]_vars

\* the prompt link of the spartan page a was activated: the page that was
\* loaded is a, the current uri is b, and back was not touched
C5_Witness ==
    /\ nloads = 1
    /\ IsSome(last)
    /\ last[1].events[Len(last[1].events)] = Signal("page-loaded", <<SpartanA>>)
    /\ history = [uri |-> SpartanB, back |-> <<AboutBlank>>, forward |-> <<>>]

\* the navigation operations
NavOps == {"visit", "reload", "go_previous", "go_next"}

\* C6 as claimed: when the load of a visit, reload, go_previous or go_next
\* ends with page-load-failed, history and buffer are what they were when
\* the operation was invoked.  go_previous and go_next break it: they move
\* the history before they load.
C6_FailureRestoresState ==
    [][(/\ last' # last
        /\ last'[1].op \in NavOps
        /\ HasEvent(last'[1], "page-load-failed")) =>
          /\ history' = last'[1].before.history
          /\ buffer' = last'[1].before.buffer]_vars

\* the schemes C7 names
ClaimedSchemes ==
    {"gemini", "spartan", "gopher", "finger", "file", "data", "mercury"}

\* the record of the load that was started last
Newest ==
    IF Len(loads) > 0 /\ loads[Len(loads)].id = nloads
    THEN loads[Len(loads)] ELSE last[1]

\* the history load() is entered with, by the operation that calls it
AtLoad(op, h) ==
    CASE op = "go_previous" -> HistoryPrevious(h).hist
      [] op = "go_next"     -> HistoryNext(h).hist
      [] OTHER              -> h

\* C7: load(address) of an absolute url whose scheme is not one of gemini,
\* spartan, gopher, finger, file, data, mercury emits
\* request-unsupported-scheme, starts no request driver and leaves history
\* and buffer as load() found them.
C7_UnsupportedScheme ==
    [][(/\ nloads' = nloads + 1
        /\ Newest'.op \in NavOps
        /\ Newest'.addr.scheme # ""
        /\ Lower(Newest'.addr.scheme) \notin ClaimedSchemes) =>
          /\ HasEvent(Newest', "request-unsupported-scheme")
          /\ Newest'.driver = "none"
          /\ Newest'.wpc = "none"
          /\ loads' = loads
          /\ history' = AtLoad(Newest'.op, history)
          /\ buffer' = buffer]_vars

\* visit("http://h/a") has emitted request-unsupported-scheme
C7_Witness ==
    /\ IsSome(last)
    /\ last[1].addr = Uri("http", PathA)
    /\ last[1].driver = "none"
    /\ HasEvent(last[1], "request-unsupported-scheme")
    /\ history = HistoryDefault
    /\ buffer = BufferDefault

\* the drivers whose worker follows redirects
RedirectingDrivers == {"gemini", "spartan", "post"}

\* the step hands the message of load l to its receiver closure, which
\* renders the response
RendersNow(l) ==
    /\ loads[l].driver \in RedirectingDrivers
    /\ IsSome(last')
    /\ last'[1].id = loads[l].id
    /\ HasEvent(last'[1], "page-loaded")

\* the url of the last request of load l and the response it got
FinalUrl(l) == loads[l].wurl[1]

FinalResponse(l) == loads[l].response[1].response

\* C8 as claimed: after a Gemini or Spartan load that ends in a renderable
\* Success the current uri is the final url, the previous current uri is on
\* top of back unless the final url equals it, forward is empty, and the
\* buffer holds the mime and the body of that response.  A load of the url
\* that is already current (go_previous, go_next, reload) breaks it: forward
\* keeps its entries.
C8_SuccessAppendsFinalUrl ==
    [][\A l \in DOMAIN loads :
          RendersNow(l) =>
             /\ history'.uri = FinalUrl(l)
             /\ FinalUrl(l) # history.uri =>
                    history'.back = history.back \o <<history.uri>>
             /\ history'.forward = <<>>
             /\ buffer' = [mime    |-> FinalResponse(l).meta.mime,
                           content |-> FinalResponse(l).data]]_vars

\* C8 (amended): after a Gemini or Spartan load that ends in a renderable
\* Success, possibly after redirects, the current uri is the final url that
\* returned Success; if that url differs from the previous current uri, the
\* previous current uri is on top of back and forward is empty, and if it
\* is the same, back and forward are unchanged; the buffer holds the mime
\* and the body of that response.
C8_SuccessAppendsFinalUrlUnlessCurrent ==
    [][\A l \in DOMAIN loads :
          RendersNow(l) =>
             /\ history'.uri = FinalUrl(l)
             /\ IF FinalUrl(l) # history.uri
                THEN /\ history'.back = history.back \o <<history.uri>>
                     /\ history'.forward = <<>>
                ELSE history' = history
             /\ buffer' = [mime    |-> FinalResponse(l).meta.mime,
                           content |-> FinalResponse(l).data]]_vars

\* visit("GEMINI://h/a") was redirected to b and rendered: b is current, the
\* uri that was current before is on top of back
C8_Witness ==
    /\ IsSome(last)
    /\ last[1].driver = "gemini"
    /\ last[1].url = <<GeminiA>>
    /\ last[1].events[Len(last[1].events)] = Signal("page-loaded", <<GeminiB>>)
    /\ history = [uri |-> GeminiB, back |-> <<AboutBlank>>, forward |-> <<>>]
    /\ buffer = [mime |-> "text/gemini", content |-> BodyPrompt]

\* the step is a pass of the loop of the Gemini worker of load l
GeminiPass(l) ==
    /\ l \in DOMAIN loads'
    /\ loads[l].driver = "gemini"
    /\ loads[l].wpc = "request"
    /\ loads'[l].id = loads[l].id
    /\ loads'[l] # loads[l]

\* the outcome of the request of the pass: a status class or "error"
Outcome(rec) ==
    IF rec.response[1].kind = "ok" THEN rec.response[1].response.status[1]
    ELSE "error"

\* the worker has sent exactly the one message of the type and stopped
Reports(old, new, type) ==
    /\ new.wpc = "done"
    /\ new.sent = old.sent + 1
    /\ Len(new.chan) = 1
    /\ new.chan[1].type = type

\* C9 as claimed: a pass of the Gemini worker requests again, with the url
\* the META gives, exactly when the status is Redirect, and otherwise stops
\* and reports Success for 2x, RequestInput for 1x and Error for 4x, 5x, 6x,
\* Unknown and the errors of the driver.  A Redirect whose META is not an
\* absolute url breaks it: the worker reports Error and stops.
C9_GeminiStateMachine ==
    [][\A l \in DOMAIN loads :
          GeminiPass(l) =>
             LET old == loads[l]
                 new == loads'[l]
                 o   == Outcome(new)
             IN  CASE o = "Redirect" ->
                        /\ new.wpc = "request"
                        /\ new.sent = old.sent
                        /\ new.chan = old.chan
                        /\ new.response[1].response.meta.scheme # "" =>
                               new.wurl = <<new.response[1].response.meta>>
                   [] o = "Success" -> Reports(old, new, "Success")
                   [] o = "Input"   -> Reports(old, new, "RequestInput")
                   [] OTHER         -> Reports(old, new, "Error")]_vars

\* every load of the run, in flight or finished
Records == { loads[l] : l \in DOMAIN loads } \cup { last[i] : i \in DOMAIN last }

\* C10 as claimed: a worker that has terminated has sent exactly one
\* message, the controller has handled at most one message of each load,
\* and no message is a Redirect.  The Spartan, Gopher and Finger workers
\* break it: an i/o error after the connection is open panics them before
\* they send anything.
C10_OneMessagePerWorker ==
    \A rec \in Records :
        /\ rec.wpc \in {"done", "panicked"} => rec.sent = 1
        /\ rec.handled <= 1
        /\ \A i \in DOMAIN rec.chan : rec.chan[i].type # "Redirect"

\* ------------------------------------------------------- C11 .. C16
\* the step is a pass of the loop of the worker of load l, a Gemini or a
\* Spartan one, whose request has returned
RequestReturns(l) ==
    /\ l \in DOMAIN loads'
    /\ loads[l].driver \in RedirectingDrivers
    /\ loads[l].wpc = "request"
    /\ loads'[l].id = loads[l].id
    /\ loads'[l] # loads[l]
    /\ loads'[l].response[1].kind # "panic"

\* the request of the pass was answered with a Redirect status
IsRedirect(rec) ==
    /\ rec.response[1].kind = "ok"
    /\ IF rec.driver = "gemini"
       THEN rec.response[1].response.status[1] = "Redirect"
       ELSE rec.response[1].response.status = "Redirect"

\* C11 as claimed: no bound on redirect hops is enforced.  A pass of a Gemini
\* or Spartan worker that is answered with a Redirect sends nothing and
\* requests again, however many redirects came before, so a server that
\* always redirects keeps the load without a terminal signal for ever; a pass
\* that gets any other answer sends the worker's one message.  A Gemini
\* Redirect whose META is not an absolute url breaks it (see C9).
C11_RedirectsWithoutBound ==
    [][\A l \in DOMAIN loads :
          RequestReturns(l) =>
             IF IsRedirect(loads'[l])
             THEN /\ loads'[l].wpc = "request"
                  /\ loads'[l].sent = 0
                  /\ loads'[l].chan = <<>>
                  /\ loads'[l].events = loads[l].events
             ELSE /\ loads'[l].wpc = "done"
                  /\ loads'[l].sent = 1
                  /\ Len(loads'[l].chan) = 1]_vars

GopherB == Uri("gopher", PathB)

\* the uri a load that renders makes current: the url of the worker's last
\* request
Rendered(rec) == rec.wurl[1]

\* the content is text or an image, by its mime or by its bytes
Renderable(content) ==
    \/ StartsWithText(content.mime) \/ StartsWithImage(content.mime)
    \/ StartsWithText(Sniff(content.bytes)) \/ StartsWithImage(Sniff(content.bytes))

\* C12: a new navigation does not cancel one in flight.  When the message of
\* a load is handled after a load that was started later has already
\* finished, it is applied all the same: if it is a renderable Success, the
\* buffer holds its document and its url is the current uri, although the
\* other page was requested last.
C12_StaleResultIsApplied ==
    [][\A l \in DOMAIN loads :
          (/\ IsSome(last)
           /\ last[1].id > loads[l].id
           /\ IsSome(last')
           /\ last'[1].id = loads[l].id
           /\ loads[l].chan[1].type = "Success"
           /\ Renderable(loads[l].chan[1].content)) =>
             /\ history'.uri = Rendered(loads[l])
             /\ buffer' = [mime    |-> loads[l].chan[1].content.mime,
                           content |-> loads[l].chan[1].content.bytes]
             /\ HasEvent(last'[1], "page-loaded")]_vars

\* visit(gemini a), visit(gopher b), the answer of b was handled first and
\* the answer of a after it: a is current, b is below it in back and the
\* buffer holds the document of a
C12_Witness ==
    /\ nloads = 2
    /\ loads = <<>>
    /\ IsSome(last)
    /\ last[1].id = 1
    /\ last[1].addr = GeminiA
    /\ history = [uri |-> GeminiA, back |-> <<AboutBlank, GopherB>>,
                  forward |-> <<>>]
    /\ buffer = [mime |-> "text/gemini", content |-> BodyPrompt]

\* the step is a step of the worker thread of load l
WorkerStep(l) ==
    /\ l \in DOMAIN loads'
    /\ loads[l].wpc = "request"
    /\ loads'[l].id = loads[l].id
    /\ loads'[l] # loads[l]

\* the operations that issue requests
IssuingOps == {"visit", "reload", "go_previous", "go_next", "post_spartan"}

\* the step is a call of a public operation that issues the request of a
\* remote load
IssuesRequest ==
    /\ nloads' = nloads + 1
    /\ Newest'.op \in IssuingOps
    /\ Newest'.driver # "none"

\* C13 as claimed: for the remote schemes history and buffer are never
\* changed by a worker thread and change only in the controller step that
\* handles the worker's message: neither the steps of the worker nor the
\* operation that issues the request changes them.  go_previous and go_next
\* break it: they move the history when they are called (see C6).
C13_OnlyTheReceiverChangesState ==
    [][((\E l \in DOMAIN loads : WorkerStep(l)) \/ IssuesRequest) =>
          /\ history' = history
          /\ buffer' = buffer]_vars

\* how often the load record has emitted the signal
Count(rec, name) ==
    Cardinality({ i \in DOMAIN rec.events : rec.events[i].name = name })

\* the signals that end a load that did not fail
SuccessSignals ==
    {"page-loaded", "request-download", "request-input",
     "request-input-sensitive"}

\* the load has ended without failing
Succeeded(rec) == \E name \in SuccessSignals : HasEvent(rec, name)

\* C14 as claimed: a load that fails, for whatever cause, emits
\* page-load-failed exactly once and neither page-loaded nor
\* request-download: a load that is over either has succeeded or has emitted
\* page-load-failed, once, and never both.  (A mercury: load is not
\* dispatched at all, see C16, and is left out here.)  load_file breaks it:
\* a file that cannot be read ends the load without any signal.
C14_FailureIsSignalledOnce ==
    (alive /\ IsSome(last) /\ Lower(last[1].addr.scheme) # "mercury") =>
        /\ Count(last[1], "page-load-failed") <= 1
        /\ ~Succeeded(last[1]) => Count(last[1], "page-load-failed") = 1
        /\ HasEvent(last[1], "page-load-failed") =>
              /\ ~HasEvent(last[1], "page-loaded")
              /\ ~HasEvent(last[1], "request-download")

\* the load has met a redirect: its worker has gone on to another url
Redirected(rec) == IsSome(rec.url) /\ rec.wurl # rec.url

\* C15 as claimed: a load that meets a redirect emits page-load-redirect,
\* after page-load-started and before its terminal signal.  No code emits
\* that signal.
C15_RedirectIsSignalled ==
    (IsSome(last) /\ Redirected(last[1]) /\ Len(last[1].events) > 1) =>
        \E i \in DOMAIN last[1].events :
            /\ last[1].events[i].name = "page-load-redirect"
            /\ 1 < i
            /\ i < Len(last[1].events)

\* the request driver C16 expects for a scheme; data: and file: urls are
\* served inside load() itself
DriverOf(scheme) ==
    CASE scheme \in {"gemini", "mercury"} -> "gemini"
      [] scheme \in {"data", "file"}      -> "none"
      [] OTHER                            -> scheme

\* C16 as claimed: a load of an absolute url of a whitelisted scheme is
\* dispatched to the request driver of the scheme; a mercury: url goes to the
\* Gemini driver (its variant without TLS) and is not accepted by the
\* whitelist and then ignored.  load() has no arm for "mercury": the url
\* passes the whitelist and nothing happens.
C16_WhitelistedSchemeIsDispatched ==
    [][(/\ nloads' = nloads + 1
        /\ Newest'.op \in NavOps
        /\ Lower(Newest'.addr.scheme) \in ClaimedSchemes) =>
          /\ Newest'.driver = DriverOf(Lower(Newest'.addr.scheme))
          /\ Newest'.driver # "none" => Newest'.wpc = "request"
          /\ Lower(Newest'.addr.scheme) = "mercury" =>
                Newest' \in { loads'[l] : l \in DOMAIN loads' }]_vars

\* ------------------------------------------------------------ C17..C20
\* what the parser that ran made of raw
Result == parsed[1].result
Fails(e) == Result.kind = "err" /\ Result.err = e

\* the bytes of s before its first \n, all of s when it has none
HeaderBytes(s) ==
    IF \E i \in DOMAIN s : s[i] = LF
    THEN SubSeq(s, 1, (CHOOSE i \in DOMAIN s :
                          s[i] = LF /\ \A j \in 1..(i - 1) : s[j] # LF) - 1)
    ELSE s

\* the bytes of a header before its first space, all of it when it has none
StatusBytes(h) ==
    IF \E i \in DOMAIN h : h[i] = SP
    THEN SubSeq(h, 1, (CHOOSE i \in DOMAIN h :
                          h[i] = SP /\ \A j \in 1..(i - 1) : h[j] # SP) - 1)
    ELSE h

\* t is a decimal numeral: digits, with or without a '+' before them
Numeric(t) ==
    LET d == IF Len(t) > 0 /\ t[1] = Plus THEN Tail(t) ELSE t IN
    d # <<>> /\ \A i \in DOMAIN d : d[i] \in Digits

\* the bad headers C17 lists
BadHeader(s) ==
    \/ \A i \in DOMAIN s : s[i] # LF
    \/ s[1] = LF
    \/ ~Utf8Valid(HeaderBytes(s))
    \/ \A i \in DOMAIN HeaderBytes(s) : HeaderBytes(s)[i] # SP
    \/ ~Numeric(StatusBytes(HeaderBytes(s)))

\* C17: either parser answers the empty input with EmptyResponse, and a
\* non-empty input that has no \n, starts with \n, has a header that is not
\* UTF-8, has no space in its header or has a status that is not a number
\* with InvalidResponseHeader; no non-empty input gets EmptyResponse
C17_BadInputClassification ==
    IsSome(parsed) =>
       /\ raw = <<>> => Fails(EmptyResponse)
       /\ (raw # <<>> /\ BadHeader(raw)) => Fails(InvalidResponseHeader)
       /\ raw # <<>> => ~Fails(EmptyResponse)

\* the Spartan parser has rejected an input that starts with \n and goes on
C17_Witness ==
    /\ IsSome(parsed)
    /\ parsed[1].by = "spartan"
    /\ Len(raw) > 1
    /\ raw[1] = LF
    /\ Fails(InvalidResponseHeader)

\* the META of a header: the bytes after its first space
MetaBytes(h) ==
    SubSeq(h, Len(StatusBytes(h)) + 2, Len(h))

\* the statuses a parser takes: any u8 for Gemini, 2 to 5 for Spartan
StatusAccepted(by, t) ==
    /\ ParseU8(t).ok
    /\ by = "spartan" => ParseU8(t).value \in 2..5

\* C18: either parser trims the META of a well-formed header, rejects the
\* response with InvalidResponseHeader when the trimmed META is longer than
\* 1024 bytes, and accepts a trimmed META of exactly 1024 bytes
C18_MetaIsTrimmedAndLimited ==
    (IsSome(parsed) /\ raw # <<>> /\ ~BadHeader(raw)) =>
       LET header == HeaderBytes(raw)
           meta   == Trim(MetaBytes(header))
       IN  /\ Len(meta) > MetaMax => Fails(InvalidResponseHeader)
           /\ Result.kind = "ok" => Result.response.meta = meta
           /\ (Len(meta) = MetaMax
                /\ StatusAccepted(parsed[1].by, StatusBytes(header))) =>
                  Result.kind = "ok"

\* the bytes of s after its first \n
BodyBytes(s) == SubSeq(s, Len(HeaderBytes(s)) + 2, Len(s))

\* C19: the body of a response that either parser accepts is the bytes after
\* the first \n of the input, unchanged, so that header, \n and body make up
\* the input again; "20 text/gemini\r\n# Hello!" parses to Success(0),
\* "text/gemini" and "# Hello!"
C19_BodyIsVerbatim ==
    IsSome(parsed) =>
       /\ Result.kind = "ok" =>
             /\ Result.response.data = BodyBytes(raw)
             /\ HeaderBytes(raw) \o <<LF>> \o Result.response.data = raw
       /\ (raw = HelloResponse /\ parsed[1].by = "gemini") =>
             /\ Result.kind = "ok"
             /\ Result.response = Response(<<"Success", 0>>, HelloMeta, HelloBody)

\* a parser has accepted a response whose body holds a \r or a further \n
C19_Witness ==
    /\ IsSome(parsed)
    /\ Result.kind = "ok"
    /\ \E i \in DOMAIN Result.response.data :
          Result.response.data[i] \in {LF, 13}

\* the class the tens digit of a status selects
ClassOfTens ==
    [d \in 1..6 |-> <<"Input", "Success", "Redirect", "TemporaryFailure",
                      "PermanentFailure", "ClientCertRequired">>[d]]

\* C20: StatusCode::from(n) is the class of the tens digit of n with the
\* units digit as subcode when n is between 10 and 69, Unknown(n) for every
\* other byte, and u8::from gives n back
C20_StatusCodeRoundTrip ==
    IsSome(parsed) =>
       LET n == raw[1] IN
       /\ (10 <= n /\ n <= 69) =>
             parsed[1].status = <<ClassOfTens[n \div 10], n % 10>>
       /\ (n < 10 \/ n > 69) => parsed[1].status = <<"Unknown", n>>
       /\ parsed[1].byte = n

\* 18 has become Input(8) and 18 again
C20_Witness ==
    /\ raw = <<18>>
    /\ parsed = Some([status |-> <<"Input", 8>>, byte |-> 18])

\* ------------------------------------------------------------ C21..C26
\* the lines that are a marker cut short
BareMarkers == { <<"=">>, <<"*">>, <<"=", ">">>, <<"#">> }

\* C21: parse_gemtext returns a node sequence for every text, without a
\* panic, and a line that is only "=", "*", "=>" or "#" yields a Text node
C21_ParserNeverFails ==
    IsSome(parsed) =>
       /\ Result.kind = "ok"
       /\ raw \in BareMarkers =>
             /\ Len(Result.nodes) = 1
             /\ Result.nodes[1].type = "Text"

\* raw is one line that begins with the two characters of marker and has a
\* url after it
MarkedLine(marker) ==
    /\ Len(raw) > 2
    /\ SubSeq(raw, 1, 2) = marker
    /\ \A i \in DOMAIN raw : raw[i] # "\n"
    /\ \E i \in 3..Len(raw) : ~IsWhitespace(raw[i])

\* the url of such a line: its first run of characters that are not white
\* space; and its display text: what follows the white space character
\* that ends the url, if anything does
UrlStart == CHOOSE i \in 3..Len(raw) :
               ~IsWhitespace(raw[i]) /\ \A j \in 3..(i - 1) : IsWhitespace(raw[j])
UrlEnd == CHOOSE i \in UrlStart..Len(raw) :
             /\ \A j \in UrlStart..i : ~IsWhitespace(raw[j])
             /\ i = Len(raw) \/ IsWhitespace(raw[i + 1])
UrlOfLine == SubSeq(raw, UrlStart, UrlEnd)
DisplayOfLine ==
    IF UrlEnd + 2 > Len(raw) THEN None
    ELSE Some(SubSeq(raw, UrlEnd + 2, Len(raw)))

\* C22: a "=:" line parses to a Prompt node whose url is the first token
\* after the marker and whose display text is the non-empty remainder, as
\* for a "=>" line and its Link node; without display text it is
\* Prompt(url, None)
C22_PromptLine ==
    IsSome(parsed) =>
       /\ MarkedLine(<<"=", ":">>) =>
             Result = Returned(<<Node("Prompt", UrlOfLine, DisplayOfLine)>>)
       /\ MarkedLine(<<"=", ">">>) =>
             Result = Returned(<<Node("Link", UrlOfLine, DisplayOfLine)>>)

\* raw is one line that is not blank
OneLine == (\A i \in DOMAIN raw : raw[i] # "\n") /\ ~IsBlank(raw)

\* the number of "#" characters raw begins with
LeadingHashes ==
    IF \A i \in DOMAIN raw : raw[i] = "#" THEN Len(raw)
    ELSE (CHOOSE i \in DOMAIN raw :
             raw[i] # "#" /\ \A j \in 1..(i - 1) : raw[j] = "#") - 1

HeadingTypes == <<"Heading", "SubHeading", "SubSubHeading">>

\* C23: a line becomes a heading of level one, two or three only when it
\* begins with exactly that many "#" characters and a white space character
\* comes right after them; a "#" line without that white space, or with four
\* or more "#", becomes a Text node
C23_HeadingLine ==
    (IsSome(parsed) /\ OneLine /\ Result.kind = "ok") =>
       LET k == LeadingHashes
           spaced == Len(raw) > k /\ IsWhitespace(raw[k + 1])
       IN  /\ \A i \in DOMAIN Result.nodes : \A n \in 1..3 :
                 Result.nodes[i].type = HeadingTypes[n] => (k = n /\ spaced)
           /\ (k >= 1 /\ (~spaced \/ k >= 4)) =>
                 /\ Len(Result.nodes) = 1
                 /\ Result.nodes[1].type = "Text"

\* the number of lines at the head of ls that start with ">"
RECURSIVE LeadingQuotes(_)
LeadingQuotes(ls) ==
    IF Len(ls) > 0 /\ Len(ls[1]) > 0 /\ ls[1][1] = ">"
    THEN 1 + LeadingQuotes(Tail(ls))
    ELSE 0

\* C24: adjacent lines that start with ">" make one Blockquote node; the
\* first line that does not start with ">" ends it and is parsed as usual
C24_QuoteLinesMerge ==
    (IsSome(parsed) /\ Result.kind = "ok" /\ LeadingQuotes(Lines(raw)) > 0) =>
       LET ls == Lines(raw)
           q  == LeadingQuotes(ls)
           rest == ParseLines(SubSeq(ls, q + 1, Len(ls)), 1,
                              Doc(FALSE, FALSE, <<>>, <<>>, <<>>, FALSE))
       IN  /\ Len(Result.nodes) > 0
           /\ Result.nodes[1].type = "Blockquote"
           /\ Tail(Result.nodes) = rest.nodes

\* the line starts with three grave accents
IsFence(line) == Len(line) >= 3 /\ \A i \in 1..3 : line[i] = Backtick

\* raw begins with a preformatted block: a fence, then lines, then a fence
FencedBlock ==
    LET ls == Lines(raw) IN
    /\ Len(ls) >= 2
    /\ IsFence(ls[1])
    /\ \E c \in 2..Len(ls) : IsFence(ls[c])

\* the index of the closing fence, the lines between the fences, and the
\* text after the grave accents of the opening fence
ClosingFence ==
    CHOOSE c \in 2..Len(Lines(raw)) :
        IsFence(Lines(raw)[c]) /\ \A j \in 2..(c - 1) : ~IsFence(Lines(raw)[j])
BlockLines == SubSeq(Lines(raw), 2, ClosingFence - 1)
OpeningAlt ==
    LET t == SubSeq(Lines(raw)[1], 4, Len(Lines(raw)[1])) IN
    IF t = <<>> THEN None ELSE Some(t)

\* the lines, a "\n" after each
RECURSIVE Terminated(_)
Terminated(ls) ==
    IF Len(ls) = 0 THEN <<>> ELSE ls[1] \o <<"\n">> \o Terminated(Tail(ls))

\* C25 as claimed: the body of a Preformatted node is the lines between the
\* fences joined by newlines, without a newline at its end, and the alt text
\* is the text after the grave accents of the opening fence
C25_BodyIsTrimmed ==
    (IsSome(parsed) /\ FencedBlock) =>
       /\ Result.kind = "ok"
       /\ Len(Result.nodes) > 0
       /\ Result.nodes[1] = Node("Preformatted", Join(BlockLines), OpeningAlt)

\* C25 amended: the body of a Preformatted node is the lines between the
\* fences with a newline after each of them, the last included, and the alt
\* text is the text after the grave accents of the opening fence
C25_BodyKeepsNewlines ==
    (IsSome(parsed) /\ FencedBlock) =>
       /\ Result.kind = "ok"
       /\ Len(Result.nodes) > 0
       /\ Result.nodes[1] = Node("Preformatted", Terminated(BlockLines), OpeningAlt)

\* a block of one line, opened by a bare fence and closed by a fence with
\* text after it, has been parsed: the body ends in "\n" and there is no alt
C25_Witness ==
    /\ IsSome(parsed)
    /\ FencedBlock
    /\ Len(BlockLines) = 1
    /\ OpeningAlt = None
    /\ Len(Lines(raw)[ClosingFence]) > 3
    /\ Result.kind = "ok"
    /\ Result.nodes[1].d = None
    /\ Result.nodes[1].s[Len(Result.nodes[1].s)] = "\n"

\* s without the newlines at its end
RECURSIVE TrimNewlines(_)
TrimNewlines(x) ==
    IF Len(x) > 0 /\ x[Len(x)] = "\n" THEN TrimNewlines(SubSeq(x, 1, Len(x) - 1))
    ELSE x

\* the nodes are the same but for the newlines at the end of their strings
Equivalent(n, m) ==
    /\ n.type = m.type
    /\ n.d = m.d
    /\ TrimNewlines(n.s) = TrimNewlines(m.s)

\* C26: a node of any variant, formatted with Display and parsed again,
\* comes back as exactly one node equivalent to it
C26_DisplayRoundTrip ==
    IsSome(parsed) =>
       /\ Result.kind = "ok"
       /\ Len(Result.nodes) = 1
       /\ Equivalent(raw, Result.nodes[1])

\* -------------------------------------------------------------- C27..C29
\* the lines of the document at hand
GopherLines == Lines(raw.bytes)

\* the lines before the first "." line, all of them when there is none
BeforeTerminator ==
    IF \E i \in DOMAIN GopherLines : GopherLines[i] = <<".">>
    THEN LET i == CHOOSE i \in DOMAIN GopherLines :
                     /\ GopherLines[i] = <<".">>
                     /\ \A j \in 1..(i - 1) : GopherLines[j] # <<".">>
         IN  SubSeq(GopherLines, 1, i - 1)
    ELSE GopherLines

Called(name) == parsed # None /\ parsed[1].call = name

\* C27: is_map is true exactly when the MIME type is text and every line
\* before the first "." line (or the end of the document) starts with one of
\* the item types; an empty line or another first character there makes it
\* false, and the lines after the terminator do not count
C27_IsMap ==
    Called("is_map") =>
        parsed[1].map =
            (/\ StartsWithText(raw.mime)
             /\ \A i \in DOMAIN BeforeTerminator :
                    /\ Len(BeforeTerminator[i]) > 0
                    /\ BeforeTerminator[i][1] \in ItemTypes)

\* is_map was true for a document with a line after the terminator that
\* starts with no item type
C27_Witness ==
    /\ Called("is_map")
    /\ parsed[1].map
    /\ Len(BeforeTerminator) > 0
    /\ \E i \in (Len(BeforeTerminator) + 2)..Len(GopherLines) :
           Len(GopherLines[i]) = 0 \/ GopherLines[i][1] \notin ItemTypes

\* C28: the "." line terminates the map: the nodes are those of the lines
\* before it, no later line contributes a node
C28_TerminatorEndsMap ==
    (Called("parse") /\ Result.kind = "ok") =>
        Result.nodes = GopherParseFrom(BeforeTerminator, 1, <<>>).nodes

\* the node the line kinds stand for, by the first character of a line with
\* at least four fields
NodeOfFields(line) ==
    LET els == Split(line, "\t")
        c   == IF Len(line) > 0 THEN line[1] ELSE ""
    IN  CASE c = "i" -> LineType("Text", Tail(els[1]), <<>>, <<>>, <<>>, <<>>)
          [] c = "7" -> LineType("Query", Tail(els[1]), els[2], els[3], els[4], <<>>)
          [] c = "h" /\ StartsWithUrl(els[2]) ->
                 LineType("Http", Tail(els[1]), <<>>, <<>>, <<>>,
                          SubSeq(els[2], 5, Len(els[2])))
          [] OTHER   -> LineType("Link", Tail(els[1]), els[2], els[3], els[4], <<>>)

\* the lines with at least four tab-separated fields, in order
WithFourFields ==
    SelectSeq(GopherLines, LAMBDA l : Len(Split(l, "\t")) >= 4)

\* C29: the parser drops every line with fewer than four fields and goes
\* on; a line with four or more fields yields Text, Query, Http or Link by
\* its first character
C29_ShortLinesDropped ==
    Called("parse") =>
        /\ Result.kind = "ok"
        /\ Result.nodes = [i \in DOMAIN WithFourFields |-> NodeOfFields(WithFourFields[i])]

\* ------------------------------------------------------------------ C30
\* the value of a symbol of the standard alphabet (A-Z, a-z, 0-9, "+", "/"),
\* -1 for every other byte
StandardSymbol(c) ==
    CASE c \in 65..90  -> c - 65
      [] c \in 97..122 -> c - 71
      [] c \in 48..57  -> c + 4
      [] c = 43        -> 62
      [] c = 47        -> 63
      [] OTHER         -> -1

\* what decode is to return: the payload decoded with the standard alphabet
\* when it is marked base64, percent-decoded for a text type and as it is
\* for an image type otherwise, and an error for Unknown
ExpectedData(self) ==
    LET pl == IF self.base64 THEN Base64Decode([c \in 0..U8Max |-> StandardSymbol(c)], self.data)
              ELSE IF self.mime \in TextMimeTypes THEN UrlDecode(self.data)
              ELSE Decoded(self.data)
    IN  IF self.mime = "Unknown" \/ ~pl.ok THEN DataErr
        ELSE IF self.mime \in ImageMimeTypes THEN BytesData(pl.bytes)
        ELSE IF Utf8Valid(pl.bytes) THEN TextData(pl.bytes)
        ELSE DataErr

\* C30: decode gives the payload decoded with the standard base64 alphabet
\* when it is marked base64 (payloads with "+" or "/" decode), the
\* percent-decoded payload for a text type and the raw bytes for an image
\* type otherwise, and always fails for Unknown; the two payloads of the
\* tests decode to "GNU is not Unix\n" and "GNU is not Unix"
C30_Decode ==
    Called("decode") =>
        /\ Result = ExpectedData(raw)
        /\ (raw = [mime |-> "TextPlain", base64 |-> TRUE, data |-> B64_URL])
               => Result = TextData(GnuIsNotUnix \o <<10>>)
        /\ (raw = [mime |-> "TextPlain", base64 |-> FALSE, data |-> PERCENT_URL])
               => Result = TextData(GnuIsNotUnix)

\* ------------------------------------------------------------------ C31
\* the path of the request line: the percent-decoded path of the url, "/"
\* when it is empty, with the query of a GET
WirePath(url, with_query) ==
    LET path  == IF url.path = <<>> /\ with_query THEN <<47>> ELSE url.path
        query == IF with_query /\ url.query # None
                 THEN <<63>> \o url.query[1] ELSE <<>>
    IN  DecodeBinary(path \o query, 1)

\* C31: the Spartan driver writes "<host> <path> <content-length>\r\n": a
\* GET has content-length 0 and nothing after the line, a POST has the
\* number of upload bytes and the upload right after the "\r\n"
C31_RequestLine ==
    /\ (Called("request") /\ Result.kind = "wrote") =>
           Result.bytes =
               raw.url.host \o <<SP>> \o WirePath(raw.url, TRUE)
                   \o <<SP, 48, 13, LF>>
    /\ (Called("post") /\ Result.kind = "wrote") =>
           Result.bytes =
               raw.url.host \o <<SP>> \o WirePath(raw.url, FALSE) \o <<SP>>
                   \o FormatUsize(Len(raw.data)) \o <<13, LF>> \o raw.data

\* ------------------------------------------------------------------ C32
\* the request of the worker of the load did not return a response: the
\* connection, the write or the read failed, or the response did not parse
RequestFailed(rec) == rec.response # None /\ rec.response[1].kind # "ok"

\* C32: in every driver a failure of the request, a failed write or read on
\* the open connection included, comes back as an error value: the worker
\* is not killed, it sends one message, and the message is an Error (which
\* the receiver turns into page-load-failed)
C32_IoFailureIsReported ==
    \A l \in DOMAIN loads :
        RequestFailed(loads[l]) =>
            /\ loads[l].wpc = "done"
            /\ loads[l].sent = 1
            /\ Len(loads[l].chan) = 1
            /\ loads[l].chan[1].type = "Error"

\* ------------------------------------------------------------------ C33
\* C33: parsing a Gopher map never fails or panics: it returns for every
\* content, an empty line and the lines after the "." line included, with
\* at most one node for each line
C33_GopherParseReturns ==
    Called("parse") =>
        /\ Result.kind = "ok"
        /\ Len(Result.nodes) <= Len(GopherLines)

\* ------------------------------------------------------------------ C34
\* the step hands the first message of load l to its receiver closure
HandledNow(l) ==
    /\ Len(loads[l].chan) > 0
    /\ IsSome(last')
    /\ last'[1].id = loads[l].id
    /\ last'[1].handled = loads[l].handled + 1

RenderableMime(mime) == StartsWithText(mime) \/ StartsWithImage(mime)

\* the message is a Success whose mime is neither text nor image, as
\* declared and, for Gemini and Spartan, as found in the content
Unrecognized(l) ==
    LET msg == Head(loads[l].chan) IN
    /\ msg.type = "Success"
    /\ ~RenderableMime(msg.content.mime)
    /\ loads[l].driver \in RedirectingDrivers =>
           ~RenderableMime(Sniff(msg.content.bytes))

\* the file name the claim gives: the last path segment, "download" when
\* the url has no path segments
ClaimedFilename(url) ==
    IF url.path \in {PathA, PathB, PathDir} /\ ~CannotBeABase(url)
    THEN LastSegment(url) ELSE "download"

Linear(h) ==
    h.back \o <<h.uri>> \o [i \in 1..Len(h.forward) |->
                               h.forward[Len(h.forward) + 1 - i]]

\* C35: after any sequence of append_history, go_previous and go_next the
\* list back ++ [current] ++ reverse(forward) has no two equal neighbours;
\* in particular the top of back is not the current uri
C35_NoEqualNeighbours ==
    \A i \in 1..(Len(Linear(history)) - 1) :
        Linear(history)[i] # Linear(history)[i + 1]

\* two pages were appended and go_previous has moved back: the list has
\* entries on both sides of the current uri
C35_Witness ==
    /\ Len(history.back) > 0
    /\ Len(history.forward) > 0
    /\ napi = MaxApi
    /\ nloads > 0

\* ------------------------------------------------------------------ C36
\* the load that has ended in this step, and the last signal it emitted
EndsNow == IsSome(last') /\ last' # last

LastEvent(rec) == rec.events[Len(rec.events)]

\* the step has ended a load in page-loaded for the uri that is now current
LoadedCurrent ==
    /\ EndsNow
    /\ LastEvent(last'[1]).name = "page-loaded"
    /\ LastEvent(last'[1]).args = <<history'.uri>>

MovedBack(h) ==
    [uri     |-> h.back[Len(h.back)],
     back    |-> SubSeq(h.back, 1, Len(h.back) - 1),
     forward |-> Append(h.forward, h.uri)]

\* the load that the operation of this step has started
StartsNow == nloads' = nloads + 1

Started == IF Len(loads') > Len(loads) THEN loads'[Len(loads')] ELSE last'[1]

\* the load has ended in page-loaded for the url it had asked for
LoadedAsAsked(rec) ==
    /\ ~rec.attached
    /\ LastEvent(rec).name = "page-loaded"
    /\ LastEvent(rec).args = rec.url

\* the load is in flight, or has ended as asked
NotFailed(rec) == rec.attached \/ LoadedAsAsked(rec)

Taken(l) == Head(loads[l].chan)

\* the signal the load of this step has emitted last, if it has emitted one
EmittedNow(l) ==
    IF Len(last'[1].events) > Len(loads[l].events)
    THEN Some(LastEvent(last'[1])) ELSE None

\* the history after h when url has been appended to it
Appended(h, url) ==
    /\ history'.uri = url
    /\ h.uri # url =>
         /\ history'.back = Append(h.back, h.uri)
         /\ history'.forward = <<>>

\* C38: a Gemini load that ends in an Input status emits
\* request-input-sensitive when the subcode is 1 and request-input otherwise,
\* with the prompt and the url that asked for input; it appends that url to
\* the history and leaves the buffer as it was
C38_InputRequest ==
    [][\A l \in DOMAIN loads :
         ( /\ HandledNow(l)
           /\ loads[l].driver = "gemini"
           /\ Taken(l).type = "RequestInput" ) =>
             LET input == Taken(l).input
                 name  == IF input.sensitive = 1 THEN "request-input-sensitive"
                          ELSE "request-input"
             IN  /\ alive'
                 /\ EmittedNow(l) = Some(Signal(name, <<input.meta, input.url>>))
                 /\ Appended(history, input.url)
                 /\ buffer' = buffer]_vars

\* ------------------------------------------------------------------ C39
StartsWithFence(line) == Len(line) >= 3 /\ SubSeq(line, 1, 3) = FenceLine

\* the first line of the text opens a block and no later line closes it
UnclosedFence(text) ==
    LET lines == Lines(text) IN
    /\ Len(lines) >= 1
    /\ StartsWithFence(lines[1])
    /\ \A i \in 2..Len(lines) : ~StartsWithFence(lines[i])

\* the number of characters of the lines from line i on
RECURSIVE CharsFrom(_, _)
CharsFrom(lines, i) ==
    IF i > Len(lines) THEN 0 ELSE Len(lines[i]) + CharsFrom(lines, i + 1)

\* C39: a text that opens a preformatted block and ends without the closing
\* fence still yields a Preformatted node that holds the lines after the
\* opening fence: nothing that was collected is dropped at the end of input
C39_UnclosedFenceKept ==
    (IsSome(parsed) /\ UnclosedFence(raw)) =>
       /\ Result.kind = "ok"
       /\ Len(Result.nodes) = 1
       /\ Result.nodes[1].type = "Preformatted"
       /\ Len(Result.nodes[1].s) >= CharsFrom(Lines(raw), 2)

====
